---- MODULE Spec2Model ----
(***************************************************************************)
(* A model of the Clojure-subset interpreter: the value model, the         *)
(* environment chain, the evaluator (special forms, function and macro     *)
(* application, the recur trampoline) and the session layer (namespace     *)
(* registry, require, lazy file loading).                                  *)
(*                                                                         *)
(* Text (symbol names, namespace names, file paths, error messages) is a   *)
(* sequence of chunks; the characters the code inspects ("/" in a          *)
(* qualified symbol, "." in a namespace name) are always chunks of their   *)
(* own, so indexOf, slice and replace are computed as the code computes    *)
(* them.  Environments live in a heap (envs) and are referred to by index; *)
(* 0 is the null reference.                                                *)
(***************************************************************************)
EXTENDS Integers, Sequences, FiniteSets, TLC

VARIABLES
  registry,   \* namespace name -> env (NamespaceRegistry)
  envs,       \* the heap of Env objects
  currentNs,  \* the session's current namespace name
  lazy,       \* whether options.readFile and options.sourceRoots were given
  reads,      \* the calls of options.readFile, in order
  thrown,     \* what the loadFile calls of the last operation threw, in order
  phase,      \* "constructing" | "ready" | "failed" (createSession threw)
  steps,      \* session operations performed
  op,         \* the last operation and its arguments
  outcome,    \* what the last operation returned or threw
  arrays      \* the host arrays behind the collection values bound in user

vars == <<registry, envs, currentNs, lazy, reads, thrown, phase, steps, op, outcome, arrays>>

\* The number of session operations a behaviour performs after construction.
MaxOps == 2

-----------------------------------------------------------------------------
\* Values (types.ts, factories)

cljNumber(n) == [kind |-> "number", value |-> n]
cljString(s) == [kind |-> "string", value |-> s]
cljBoolean(b) == [kind |-> "boolean", value |-> b]
cljNil == [kind |-> "nil"]
cljKeyword(n) == [kind |-> "keyword", name |-> n]
cljSymbol(n) == [kind |-> "symbol", name |-> n]
cljList(v) == [kind |-> "list", value |-> v]
cljVector(v) == [kind |-> "vector", value |-> v]
cljMap(es) == [kind |-> "map", entries |-> es]
cljMultiArityFunction(arities, env) ==
  [kind |-> "function", arities |-> arities, env |-> env]
cljMultiArityMacro(arities, env) ==
  [kind |-> "macro", arities |-> arities, env |-> env]
cljNativeFunction(name) == [kind |-> "native-function", name |-> name]

\* The host's undefined: what an out-of-range array read yields.
Undefined == [kind |-> "undefined"]

\* xs[i] of the host, i counted from 0.
At(xs, i) == IF i + 1 \in DOMAIN xs THEN xs[i + 1] ELSE Undefined

\* xs.slice(i)
SliceFrom(xs, i) == IF i >= Len(xs) THEN <<>> ELSE SubSeq(xs, i + 1, Len(xs))

\* xs.slice(0, i)
SliceTo(xs, i) == IF i <= 0 THEN <<>> ELSE SubSeq(xs, 1, IF i > Len(xs) THEN Len(xs) ELSE i)

\* s.indexOf(c): the first position (from 0) of chunk c, or -1.
IndexOf(s, c) ==
  IF \E i \in DOMAIN s : s[i] = c
    THEN (CHOOSE i \in DOMAIN s : s[i] = c /\ \A j \in 1..(i - 1) : s[j] # c) - 1
    ELSE -1

\* The decimal rendering of a small natural number inside a message.
NumText(n) ==
  CASE n = 0 -> "0" [] n = 1 -> "1" [] n = 2 -> "2" [] n = 3 -> "3"
    [] n = 4 -> "4" [] n = 5 -> "5" [] n = 6 -> "6" [] OTHER -> "many"

isSymbol(v) == v.kind = "symbol"
isVector(v) == v.kind = "vector"
isList(v) == v.kind = "list"
isMap(v) == v.kind = "map"
isKeyword(v) == v.kind = "keyword"
isMacro(v) == v.kind = "macro"
isAFunction(v) == v.kind = "function" \/ v.kind = "native-function"
isFalsy(v) ==
  IF v.kind = "nil" THEN TRUE
  ELSE IF v.kind = "boolean" THEN ~v.value
  ELSE FALSE

\* The keys of specialFormKeywords.
specialFormKeywords ==
  { <<"quote">>, <<"def">>, <<"if">>, <<"do">>, <<"let">>, <<"fn">>,
    <<"defmacro">>, <<"quasiquote">>, <<"ns">>, <<"loop">>, <<"recur">> }

\* `name in specialFormKeywords` also finds what the object literal inherits.
ObjectPrototypeKeys ==
  { <<"constructor">>, <<"toString">>, <<"valueOf">>, <<"hasOwnProperty">>,
    <<"isPrototypeOf">>, <<"propertyIsEnumerable">>, <<"toLocaleString">>,
    <<"__proto__">> }

isSpecialForm(v) ==
  v.kind = "symbol" /\ v.name \in (specialFormKeywords \cup ObjectPrototypeKeys)

\* entries.find(([k]) => isEqual(k, key)): the position of the first entry
\* whose key is equal to key, or 0.
RECURSIVE isEqual(_, _)
FindEntry(entries, key) ==
  IF \E i \in DOMAIN entries : isEqual(entries[i][1], key)
    THEN CHOOSE i \in DOMAIN entries :
           /\ isEqual(entries[i][1], key)
           /\ \A j \in 1..(i - 1) : ~isEqual(entries[j][1], key)
    ELSE 0

\* The keys uniqueKeys iterates over: those of a's entries and of b's.
KeysOfBoth(a, b) ==
  {a.entries[i][1] : i \in DOMAIN a.entries} \cup {b.entries[i][1] : i \in DOMAIN b.entries}

\* isEqual with equalityHandlers: a kind without a handler is never equal.
isEqual(a, b) ==
  IF a.kind # b.kind THEN FALSE
  ELSE CASE a.kind \in {"number", "string", "boolean"} -> a.value = b.value
         [] a.kind = "nil" -> TRUE
         [] a.kind \in {"symbol", "keyword"} -> a.name = b.name
         [] a.kind \in {"vector", "list"} ->
              /\ Len(a.value) = Len(b.value)
              /\ \A i \in DOMAIN a.value : isEqual(a.value[i], b.value[i])
         [] a.kind = "map" ->
              /\ Len(a.entries) = Len(b.entries)
              /\ \A key \in KeysOfBoth(a, b) :
                   /\ FindEntry(a.entries, key) # 0
                   /\ FindEntry(b.entries, key) # 0
                   /\ isEqual(a.entries[FindEntry(a.entries, key)][2],
                              b.entries[FindEntry(b.entries, key)][2])
         [] OTHER -> FALSE

-----------------------------------------------------------------------------
\* Outcomes of a call: a returned value, or what was thrown.

Ok(v) == [t |-> "ok", cls |-> "", msg |-> <<>>, args |-> <<>>, v |-> v]
Throw(cls, msg) == [t |-> "throw", cls |-> cls, msg |-> msg, args |-> <<>>, v |-> cljNil]
EvaluationError(msg) == Throw("EvaluationError", msg)
RecurSignal(args) == [t |-> "throw", cls |-> "RecurSignal", msg |-> <<>>, args |-> args, v |-> cljNil]
TypeError == Throw("TypeError", <<"Cannot read properties of undefined">>)

\* A machine state and an outcome.
Res(m, r) == [m |-> m, r |-> r]

-----------------------------------------------------------------------------
\* Environments (env.ts)

NoNamespace == <<"#undefined">>
EmptyMap == [x \in {} |-> 0]

\* makeEnv: a fresh env record; Alloc puts it in the heap.
makeEnv(outer) ==
  [bindings |-> EmptyMap, outer |-> outer, namespace |-> NoNamespace, aliases |-> EmptyMap]

Alloc(m, e) == [m EXCEPT !.envs = Append(@, e)]
NewId(m) == Len(m.envs) + 1

MapSet(f, k, v) == [x \in (DOMAIN f) \cup {k} |-> IF x = k THEN v ELSE f[x]]

define(name, value, env, m) ==
  [m EXCEPT !.envs[env].bindings = MapSet(@, name, value)]

\* lookup as it would be under dynamic scope: the newest env that binds the name.
lookupDynamic(name, env, m) ==
  IF \E e \in DOMAIN m.envs : name \in DOMAIN m.envs[e].bindings
    THEN Ok(m.envs[CHOOSE e \in DOMAIN m.envs :
                     /\ name \in DOMAIN m.envs[e].bindings
                     /\ \A o \in DOMAIN m.envs : name \in DOMAIN m.envs[o].bindings => o <= e]
              .bindings[name])
    ELSE Throw("Error", <<"Symbol ">> \o name \o <<" not found">>)

RECURSIVE lookup(_, _, _)
lookup(name, env, m) ==
  IF env = 0 THEN Throw("Error", <<"Symbol ">> \o name \o <<" not found">>)
  ELSE IF name \in DOMAIN m.envs[env].bindings THEN Ok(m.envs[env].bindings[name])
  ELSE lookup(name, m.envs[env].outer, m)

RECURSIVE DefineAll(_, _, _, _)
DefineAll(params, args, env, m) ==
  IF params = <<>> THEN m
  ELSE DefineAll(Tail(params), Tail(args), env, define(Head(params), Head(args), env, m))

\* extend: [m, r, env]; r is the EnvError when the lengths differ.
extend(params, args, outer, m) ==
  IF Len(params) # Len(args)
    THEN [m |-> m, r |-> Throw("EnvError", <<"Number of parameters and arguments must match">>), env |-> 0]
    ELSE [m |-> DefineAll(params, args, NewId(m), Alloc(m, makeEnv(outer))),
          r |-> Ok(cljNil), env |-> NewId(m)]

RECURSIVE getRootEnv(_, _)
getRootEnv(env, m) ==
  IF m.envs[env].outer # 0 THEN getRootEnv(m.envs[env].outer, m) ELSE env

\* `if (current.namespace)`: undefined and the empty string are both falsy.
HasNamespace(e) == e.namespace # NoNamespace /\ e.namespace # <<>>

RECURSIVE NearestNamespace(_, _)
NearestNamespace(env, m) ==
  IF env = 0 THEN 0
  ELSE IF HasNamespace(m.envs[env]) THEN env
  ELSE NearestNamespace(m.envs[env].outer, m)

\* getNamespaceEnv as it would be if it answered with the env it was given.
getNamespaceEnvLexical(env, m) == env

getNamespaceEnv(env, m) ==
  IF NearestNamespace(env, m) # 0 THEN NearestNamespace(env, m) ELSE getRootEnv(env, m)

\* The alias table a qualified symbol is resolved through, as it would be if it
\* were that of the session's current namespace.
AliasesOfCurrentNs(env, m) == m.envs[m.registry[m.currentNs]].aliases

\* getNamespaceEnv(env).aliases: the alias table a qualified symbol met in env
\* is resolved through (an env without aliases has none to offer).
AliasesOf(env, m) == m.envs[getNamespaceEnv(env, m)].aliases

-----------------------------------------------------------------------------
\* Evaluator (evaluator.ts)

RECURSIVE evaluate(_, _, _), evaluateForms(_, _, _), evaluateList(_, _, _),
          evaluateSpecialForm(_, _, _, _), evaluateQuasiquote(_, _, _),
          evaluateVector(_, _, _), evaluateMap(_, _, _),
          applyFunction(_, _, _), applyMacro(_, _, _),
          CallLoop(_, _, _, _), LoopRun(_, _, _, _, _),
          ApplyNative(_, _, _), loadFile(_, _, _), LoadFileBody(_, _, _),
          processRequireSpec(_, _, _), processNsRequires(_, _, _),
          resolveNamespace(_, _), applyMacroEagerly(_, _, _),
          LoopRunNested(_, _, _, _, _), CallLoopPassing(_, _, _, _)

\* Sequencing: go on with K when x returned, hand on what x threw otherwise.
Bind(x, K(_)) == IF x.r.t = "ok" THEN K(x) ELSE Res(x.m, x.r)

\* try { x } catch (e) { if (e instanceof RecurSignal) K(e) else throw e }
OnRecur(x, K(_)) == IF x.r.t = "throw" /\ x.r.cls = "RecurSignal" THEN K(x) ELSE x

Amp == <<"&">>
IsAmp(a) == a.kind = "symbol" /\ a.name = Amp
NoRest == [kind |-> "null"]
IsVariadic(arity) == arity.restParam.kind # "null"

First(S) == CHOOSE i \in S : \A j \in S : i <= j

\* [r, params, restParam]
parseParamVector(args) ==
  LET amps == {i \in DOMAIN args : IsAmp(args[i])}
      ampIdx == IF amps = {} THEN -1 ELSE First(amps) - 1
  IN  IF ampIdx = -1
        THEN [r |-> Ok(cljNil), params |-> args, restParam |-> NoRest]
      ELSE IF Cardinality(amps) > 1
        THEN [r |-> EvaluationError(<<"& can only appear once">>)]
      ELSE IF ampIdx # Len(args) - 2
        THEN [r |-> EvaluationError(<<"& must be second-to-last argument">>)]
      ELSE [r |-> Ok(cljNil), params |-> SliceTo(args, ampIdx), restParam |-> At(args, ampIdx + 1)]

\* One arity: the parameter vector paramVec and the body forms: [r, arity].
ParseArity(paramVec, body) ==
  IF \E i \in DOMAIN paramVec.value : ~isSymbol(paramVec.value[i])
    THEN [r |-> EvaluationError(<<"Parameters must be symbols">>)]
    ELSE LET pv == parseParamVector(paramVec.value)
         IN  IF pv.r.t # "ok" THEN [r |-> pv.r]
             ELSE [r |-> Ok(cljNil),
                   arity |-> [params |-> pv.params, restParam |-> pv.restParam, body |-> body]]

\* The for loop of parseArities over the arity clauses: [r, arities].
RECURSIVE ParseClauses(_, _)
ParseClauses(forms, acc) ==
  IF forms = <<>> THEN [r |-> Ok(cljNil), arities |-> acc]
  ELSE IF ~isList(Head(forms)) \/ Len(Head(forms).value) = 0
    THEN [r |-> EvaluationError(<<"Multi-arity clause must be a list starting with a parameter vector">>)]
  ELSE IF ~isVector(Head(forms).value[1])
    THEN [r |-> EvaluationError(<<"First element of arity clause must be a parameter vector">>)]
  ELSE LET c == ParseArity(Head(forms).value[1], SliceFrom(Head(forms).value, 1))
       IN  IF c.r.t # "ok" THEN [r |-> c.r]
           ELSE ParseClauses(Tail(forms), Append(acc, c.arity))

VariadicCount(arities) == Cardinality({i \in DOMAIN arities : IsVariadic(arities[i])})

\* [r, arities]
parseArities(forms) ==
  IF Len(forms) = 0
    THEN [r |-> EvaluationError(<<"fn/defmacro requires at least a parameter vector">>)]
  ELSE IF isVector(forms[1])
    THEN LET c == ParseArity(forms[1], SliceFrom(forms, 1))
         IN  IF c.r.t # "ok" THEN [r |-> c.r]
             ELSE [r |-> Ok(cljNil), arities |-> <<c.arity>>]
  ELSE IF isList(forms[1])
    THEN LET cs == ParseClauses(forms, <<>>)
         IN  IF cs.r.t # "ok" THEN cs
             ELSE IF VariadicCount(cs.arities) > 1
               THEN [r |-> EvaluationError(<<"At most one variadic arity is allowed per function">>)]
             ELSE cs
  ELSE [r |-> EvaluationError(<<"fn/defmacro expects a parameter vector or arity clauses">>)]

ParamNames(params) == [i \in DOMAIN params |-> params[i].name]

\* [m, r, env]
bindParams(params, restParam, args, outerEnv, m) ==
  IF restParam.kind = "null"
    THEN IF Len(args) # Len(params)
           THEN Res(m, EvaluationError(<<"Arguments length mismatch: fn accepts ", NumText(Len(params)),
                                         " arguments, but ", NumText(Len(args)), " were provided">>))
           ELSE extend(ParamNames(params), SliceTo(args, Len(params)), outerEnv, m)
    ELSE IF Len(args) < Len(params)
           THEN Res(m, EvaluationError(<<"Arguments length mismatch: fn expects at least ", NumText(Len(params)),
                                         " arguments, but ", NumText(Len(args)), " were provided">>))
           ELSE extend(Append(ParamNames(params), restParam.name),
                       Append(SliceTo(args, Len(params)),
                              IF Len(args) > Len(params)
                                THEN cljList(SliceFrom(args, Len(params))) ELSE cljNil),
                       outerEnv, m)

\* counts.join(', ')
RECURSIVE JoinCounts(_)
JoinCounts(arities) ==
  IF arities = <<>> THEN <<>>
  ELSE (IF IsVariadic(Head(arities))
          THEN <<NumText(Len(Head(arities).params)), "+">>
          ELSE <<NumText(Len(Head(arities).params))>>)
       \o (IF Len(arities) > 1 THEN <<", ">> ELSE <<>>) \o JoinCounts(Tail(arities))

\* resolveArity as it would be if the variadic arity were tried before the fixed ones.
resolveArityVariadicFirst(arities, argCount) ==
  LET exact == {i \in DOMAIN arities :
                  ~IsVariadic(arities[i]) /\ Len(arities[i].params) = argCount}
      variadic == {i \in DOMAIN arities :
                  IsVariadic(arities[i]) /\ argCount >= Len(arities[i].params)}
  IN  IF variadic # {} THEN [r |-> Ok(cljNil), index |-> First(variadic)]
      ELSE IF exact # {} THEN [r |-> Ok(cljNil), index |-> First(exact)]
      ELSE [r |-> EvaluationError(<<"No matching arity for ", NumText(argCount),
                                    " arguments. Available arities: ">> \o JoinCounts(arities)),
            index |-> 0]

\* [r, index]: the position in arities of the arity found.
resolveArity(arities, argCount) ==
  LET exact == {i \in DOMAIN arities :
                  ~IsVariadic(arities[i]) /\ Len(arities[i].params) = argCount}
      variadic == {i \in DOMAIN arities :
                  IsVariadic(arities[i]) /\ argCount >= Len(arities[i].params)}
  IN  IF exact # {} THEN [r |-> Ok(cljNil), index |-> First(exact)]
      ELSE IF variadic # {} THEN [r |-> Ok(cljNil), index |-> First(variadic)]
      ELSE [r |-> EvaluationError(<<"No matching arity for ", NumText(argCount),
                                    " arguments. Available arities: ">> \o JoinCounts(arities)),
            index |-> 0]

\* applyFunction's loop as it would be without the catch: a RecurSignal from
\* the body goes on to whatever encloses the call.
CallLoopPassing(fn, arity, currentArgs, m) ==
  Bind(bindParams(arity.params, arity.restParam, currentArgs, fn.env, m),
       LAMBDA b : evaluateForms(arity.body, b.env, b.m))

\* The while (true) of applyFunction: the arity was resolved before the loop.
CallLoop(fn, arity, currentArgs, m) ==
  Bind(bindParams(arity.params, arity.restParam, currentArgs, fn.env, m),
       LAMBDA b : OnRecur(evaluateForms(arity.body, b.env, b.m),
                          LAMBDA e : CallLoop(fn, arity, e.r.args, e.m)))

applyFunction(fn, args, m) ==
  IF fn.kind = "native-function" THEN ApplyNative(fn.name, args, m)
  ELSE IF fn.kind = "function"
    THEN LET ra == resolveArity(fn.arities, Len(args))
         IN  IF ra.r.t # "ok" THEN Res(m, ra.r)
             ELSE CallLoop(fn, fn.arities[ra.index], args, m)
  ELSE Res(m, EvaluationError(<<fn.kind, " is not a callable function">>))

\* xs.map(v => evaluate(v, env)): [m, r, vs]; stops at the first throw.
RECURSIVE EvalEach(_, _, _, _)
EvalEach(forms, env, m, acc) ==
  IF forms = <<>> THEN [m |-> m, r |-> Ok(cljNil), vs |-> acc]
  ELSE Bind(evaluate(Head(forms), env, m),
            LAMBDA x : EvalEach(Tail(forms), env, x.m, Append(acc, x.r.v)))

\* applyMacro as it would be if the argument forms were evaluated first, as
\* those of a function call are.
applyMacroEagerly(macro, rawArgs, m) ==
  Bind(EvalEach(rawArgs, macro.env, m, <<>>), LAMBDA a :
    LET ra == resolveArity(macro.arities, Len(rawArgs))
    IN  IF ra.r.t # "ok" THEN Res(a.m, ra.r)
        ELSE Bind(bindParams(macro.arities[ra.index].params, macro.arities[ra.index].restParam,
                             a.vs, macro.env, a.m),
                  LAMBDA b : evaluateForms(macro.arities[ra.index].body, b.env, b.m)))

applyMacro(macro, rawArgs, m) ==
  LET ra == resolveArity(macro.arities, Len(rawArgs))
  IN  IF ra.r.t # "ok" THEN Res(m, ra.r)
      ELSE Bind(bindParams(macro.arities[ra.index].params, macro.arities[ra.index].restParam,
                           rawArgs, macro.env, m),
                LAMBDA b : evaluateForms(macro.arities[ra.index].body, b.env, b.m))

evaluateVector(vector, env, m) ==
  Bind(EvalEach(vector.value, env, m, <<>>), LAMBDA e : Res(e.m, Ok(cljVector(e.vs))))

\* The for loop of evaluateMap: [m, r, es].
RECURSIVE EvalEntries(_, _, _, _)
EvalEntries(entries, env, m, acc) ==
  IF entries = <<>> THEN [m |-> m, r |-> Ok(cljNil), es |-> acc]
  ELSE Bind(evaluate(Head(entries)[1], env, m),
            LAMBDA k : Bind(evaluate(Head(entries)[2], env, k.m),
                            LAMBDA v : EvalEntries(Tail(entries), env, v.m,
                                                   Append(acc, <<k.r.v, v.r.v>>))))

evaluateMap(map, env, m) ==
  Bind(EvalEntries(map.entries, env, m, <<>>), LAMBDA e : Res(e.m, Ok(cljMap(e.es))))

IsTagged(elem, tag) ==
  isList(elem) /\ Len(elem.value) = 2 /\ isSymbol(elem.value[1]) /\ elem.value[1].name = tag

RECURSIVE QuasiElements(_, _, _, _)

\* The element loop as it would be if ~@ put the collection in as one element.
QuasiElementsNested(elems, env, m, acc) ==
  IF elems = <<>> THEN [m |-> m, r |-> Ok(cljNil), vs |-> acc]
  ELSE IF IsTagged(Head(elems), <<"unquote-splicing">>)
    THEN Bind(evaluate(Head(elems).value[2], env, m),
              LAMBDA x : IF ~isList(x.r.v) /\ ~isVector(x.r.v)
                           THEN Res(x.m, EvaluationError(<<"Unquote-splicing must evaluate to a list or vector">>))
                           ELSE QuasiElements(Tail(elems), env, x.m, Append(acc, x.r.v)))
  ELSE Bind(evaluateQuasiquote(Head(elems), env, m),
            LAMBDA x : QuasiElements(Tail(elems), env, x.m, Append(acc, x.r.v)))

\* The element loop of evaluateQuasiquote: [m, r, vs].
QuasiElements(elems, env, m, acc) ==
  IF elems = <<>> THEN [m |-> m, r |-> Ok(cljNil), vs |-> acc]
  ELSE IF IsTagged(Head(elems), <<"unquote-splicing">>)
    THEN Bind(evaluate(Head(elems).value[2], env, m),
              LAMBDA x : IF ~isList(x.r.v) /\ ~isVector(x.r.v)
                           THEN Res(x.m, EvaluationError(<<"Unquote-splicing must evaluate to a list or vector">>))
                           ELSE QuasiElements(Tail(elems), env, x.m, acc \o x.r.v.value))
  ELSE Bind(evaluateQuasiquote(Head(elems), env, m),
            LAMBDA x : QuasiElements(Tail(elems), env, x.m, Append(acc, x.r.v)))

RECURSIVE QuasiEntries(_, _, _, _)
QuasiEntries(entries, env, m, acc) ==
  IF entries = <<>> THEN [m |-> m, r |-> Ok(cljNil), es |-> acc]
  ELSE Bind(evaluateQuasiquote(Head(entries)[1], env, m),
            LAMBDA k : Bind(evaluateQuasiquote(Head(entries)[2], env, k.m),
                            LAMBDA v : QuasiEntries(Tail(entries), env, v.m,
                                                    Append(acc, <<k.r.v, v.r.v>>))))

evaluateQuasiquote(form, env, m) ==
  IF form.kind = "undefined" THEN Res(m, TypeError)
  ELSE IF form.kind \in {"vector", "list"}
    THEN IF IsTagged(form, <<"unquote">>)
           THEN evaluate(form.value[2], env, m)
           ELSE Bind(QuasiElements(form.value, env, m, <<>>),
                     LAMBDA e : Res(e.m, Ok(IF isList(form) THEN cljList(e.vs) ELSE cljVector(e.vs))))
  ELSE IF form.kind = "map"
    THEN Bind(QuasiEntries(form.entries, env, m, <<>>), LAMBDA e : Res(e.m, Ok(cljMap(e.es))))
  ELSE IF form.kind \in {"number", "string", "boolean", "keyword", "nil", "symbol"}
    THEN Res(m, Ok(form))
  ELSE Res(m, EvaluationError(<<"Unexpected form: ", form.kind>>))

\* The binding loop of let: [m, r, env].
RECURSIVE LetBind(_, _, _, _)
LetBind(bindings, i, localEnv, m) ==
  IF i >= Len(bindings) THEN [m |-> m, r |-> Ok(cljNil), env |-> localEnv]
  ELSE IF ~isSymbol(bindings[i + 1])
    THEN Res(m, EvaluationError(<<"Keys must be symbols">>))
  ELSE Bind(evaluate(bindings[i + 2], localEnv, m),
            LAMBDA x : Bind(extend(<<bindings[i + 1].name>>, <<x.r.v>>, localEnv, x.m),
                            LAMBDA e : LetBind(bindings, i + 2, e.env, e.m)))

\* The binding loop of loop: [m, r, env, names].
RECURSIVE LoopBind(_, _, _, _, _)
LoopBind(bindings, i, initEnv, m, names) ==
  IF i >= Len(bindings) THEN [m |-> m, r |-> Ok(cljNil), env |-> initEnv, names |-> names]
  ELSE IF ~isSymbol(bindings[i + 1])
    THEN Res(m, EvaluationError(<<"loop binding keys must be symbols">>))
  ELSE Bind(evaluate(bindings[i + 2], initEnv, m),
            LAMBDA x : Bind(extend(<<bindings[i + 1].name>>, <<x.r.v>>, initEnv, x.m),
                            LAMBDA e : LoopBind(bindings, i + 2, e.env, e.m,
                                                Append(names, bindings[i + 1].name))))

\* loop as it would be if each iteration extended the env of the iteration
\* before it, not the env outside the loop.
LoopRunNested(names, currentArgs, loopBody, env, m) ==
  Bind(extend(names, currentArgs, env, m),
       LAMBDA l : OnRecur(evaluateForms(loopBody, l.env, l.m),
                          LAMBDA e : IF Len(e.r.args) # Len(names)
                                       THEN Res(e.m, EvaluationError(<<"recur expects ", NumText(Len(names)),
                                                       " arguments but got ", NumText(Len(e.r.args))>>))
                                       ELSE LoopRunNested(names, e.r.args, loopBody, l.env, e.m)))

\* The while (true) of loop.
LoopRun(names, currentArgs, loopBody, env, m) ==
  Bind(extend(names, currentArgs, env, m),
       LAMBDA l : OnRecur(evaluateForms(loopBody, l.env, l.m),
                          LAMBDA e : IF Len(e.r.args) # Len(names)
                                       THEN Res(e.m, EvaluationError(<<"recur expects ", NumText(Len(names)),
                                                       " arguments but got ", NumText(Len(e.r.args))>>))
                                       ELSE LoopRun(names, e.r.args, loopBody, env, e.m)))

evaluateSpecialForm(symbol, list, env, m) ==
  CASE symbol = <<"quote">> -> Res(m, Ok(At(list.value, 1)))
    [] symbol = <<"quasiquote">> -> evaluateQuasiquote(At(list.value, 1), env, m)
    [] symbol = <<"def">> ->
         IF At(list.value, 1).kind = "undefined" THEN Res(m, TypeError)
         ELSE IF At(list.value, 1).kind # "symbol"
           THEN Res(m, EvaluationError(<<"First element of list must be a symbol">>))
         ELSE Bind(evaluate(At(list.value, 2), env, m),
                   LAMBDA x : Res(define(list.value[2].name, x.r.v, getNamespaceEnv(env, x.m), x.m),
                                  Ok(cljNil)))
    [] symbol = <<"ns">> -> Res(m, Ok(cljNil))
    [] symbol = <<"if">> ->
         Bind(evaluate(At(list.value, 1), env, m),
              LAMBDA c : IF c.r.v.kind = "undefined" THEN Res(c.m, TypeError)
                         ELSE IF ~isFalsy(c.r.v) THEN evaluate(At(list.value, 2), env, c.m)
                         ELSE IF At(list.value, 3).kind = "undefined" THEN Res(c.m, Ok(cljNil))
                         ELSE evaluate(At(list.value, 3), env, c.m))
    [] symbol = <<"do">> -> evaluateForms(SliceFrom(list.value, 1), env, m)
    [] symbol = <<"let">> ->
         IF At(list.value, 1).kind = "undefined" THEN Res(m, TypeError)
         ELSE IF ~isVector(At(list.value, 1)) THEN Res(m, EvaluationError(<<"Bindings must be a vector">>))
         ELSE IF Len(list.value[2].value) % 2 # 0
           THEN Res(m, EvaluationError(<<"Bindings must be a balanced pair of keys and values">>))
         ELSE Bind(LetBind(list.value[2].value, 0, env, m),
                   LAMBDA b : evaluateForms(SliceFrom(list.value, 2), b.env, b.m))
    [] symbol = <<"fn">> ->
         LET a == parseArities(SliceFrom(list.value, 1))
         IN  IF a.r.t # "ok" THEN Res(m, a.r)
             ELSE Res(m, Ok(cljMultiArityFunction(a.arities, env)))
    [] symbol = <<"defmacro">> ->
         IF At(list.value, 1).kind = "undefined" THEN Res(m, TypeError)
         ELSE IF ~isSymbol(At(list.value, 1))
           THEN Res(m, EvaluationError(<<"First element of defmacro must be a symbol">>))
         ELSE LET a == parseArities(SliceFrom(list.value, 2))
              IN  IF a.r.t # "ok" THEN Res(m, a.r)
                  ELSE Res(define(list.value[2].name, cljMultiArityMacro(a.arities, env),
                                  getRootEnv(env, m), m), Ok(cljNil))
    [] symbol = <<"recur">> ->
         Bind(EvalEach(SliceFrom(list.value, 1), env, m, <<>>),
              LAMBDA e : Res(e.m, RecurSignal(e.vs)))
    [] symbol = <<"loop">> ->
         IF At(list.value, 1).kind = "undefined" THEN Res(m, TypeError)
         ELSE IF ~isVector(At(list.value, 1))
           THEN Res(m, EvaluationError(<<"loop bindings must be a vector">>))
         ELSE IF Len(list.value[2].value) % 2 # 0
           THEN Res(m, EvaluationError(<<"loop bindings must be a balanced pair of keys and values">>))
         ELSE Bind(LoopBind(list.value[2].value, 0, env, m, <<>>),
                   LAMBDA b : LoopRun(b.names,
                                      [i \in DOMAIN b.names |-> lookup(b.names[i], b.env, b.m).v],
                                      SliceFrom(list.value, 2), env, b.m))
    [] OTHER -> Res(m, EvaluationError(<<"Unknown special form: ">> \o symbol))

\* next.entries.find(([key]) => isEqual(key, keyword)): the position of the
\* first entry whose key is that keyword, or 0.
KeywordEntry(map, kw) ==
  LET hits == {i \in DOMAIN map.entries :
                 map.entries[i][1].kind = "keyword" /\ map.entries[i][1].name = kw.name}
  IN  IF hits = {} THEN 0 ELSE First(hits)

evaluateList(list, env, m) ==
  IF Len(list.value) = 0 THEN Res(m, EvaluationError(<<"Unexpected empty list">>))
  ELSE IF isSpecialForm(list.value[1]) THEN evaluateSpecialForm(list.value[1].name, list, env, m)
  ELSE Bind(evaluate(list.value[1], env, m), LAMBDA f :
         IF f.r.v.kind = "undefined" THEN Res(f.m, TypeError)
         ELSE IF isMacro(f.r.v)
           THEN Bind(applyMacro(f.r.v, SliceFrom(list.value, 1), f.m),
                     LAMBDA expanded : evaluate(expanded.r.v, env, expanded.m))
         ELSE IF isAFunction(f.r.v)
           THEN Bind(EvalEach(SliceFrom(list.value, 1), env, f.m, <<>>),
                     LAMBDA a : applyFunction(f.r.v, a.vs, a.m))
         ELSE IF isKeyword(f.r.v)
           THEN Bind(evaluate(At(list.value, 1), env, f.m), LAMBDA next :
                  Bind(IF Len(list.value) > 2 THEN evaluate(list.value[3], env, next.m)
                       ELSE Res(next.m, Ok(cljNil)), LAMBDA dflt :
                    IF next.r.v.kind = "undefined" THEN Res(dflt.m, TypeError)
                    ELSE IF isMap(next.r.v) /\ KeywordEntry(next.r.v, f.r.v) # 0
                      THEN Res(dflt.m, Ok(next.r.v.entries[KeywordEntry(next.r.v, f.r.v)][2]))
                    ELSE dflt))
         ELSE IF ~isSymbol(list.value[1])
           THEN Res(f.m, EvaluationError(<<"First element of list must be a function or special form">>))
         ELSE Bind(Res(f.m, lookup(list.value[1].name, env, f.m)), LAMBDA fnSymbol :
                IF ~isAFunction(fnSymbol.r.v)
                  THEN Res(f.m, EvaluationError(list.value[1].name \o <<" is not a function">>))
                  ELSE Bind(EvalEach(SliceFrom(list.value, 1), env, f.m, <<>>),
                            LAMBDA a : applyFunction(fnSymbol.r.v, a.vs, a.m))))

evaluate(expr, env, m) ==
  CASE expr.kind \in {"number", "string", "keyword", "nil", "function", "boolean"} ->
         Res(m, Ok(expr))
    [] expr.kind = "symbol" ->
         LET slashIdx == IndexOf(expr.name, "/")
         IN  IF slashIdx > 0 /\ slashIdx < Len(expr.name) - 1
               THEN IF SliceTo(expr.name, slashIdx) \notin DOMAIN AliasesOf(env, m)
                      THEN Res(m, EvaluationError(<<"No such namespace alias: ">>
                                                  \o SliceTo(expr.name, slashIdx)))
                      ELSE Res(m, lookup(SliceFrom(expr.name, slashIdx + 1),
                                         AliasesOf(env, m)[SliceTo(expr.name, slashIdx)],
                                         m))
               ELSE Res(m, lookup(expr.name, env, m))
    [] expr.kind = "vector" -> evaluateVector(expr, env, m)
    [] expr.kind = "map" -> evaluateMap(expr, env, m)
    [] expr.kind = "list" -> evaluateList(expr, env, m)
    [] expr.kind = "undefined" -> Res(m, TypeError)
    [] OTHER -> Res(m, EvaluationError(<<"Unexpected value">>))

\* The for loop of evaluateForms.
RECURSIVE FormsFrom(_, _, _, _)
FormsFrom(forms, env, m, result) ==
  IF forms = <<>> THEN Res(m, Ok(result))
  ELSE Bind(evaluate(Head(forms), env, m), LAMBDA x : FormsFrom(Tail(forms), env, x.m, x.r.v))

evaluateForms(forms, env, m) == FormsFrom(forms, env, m, cljNil)

-----------------------------------------------------------------------------
\* Core library (core-env.ts): the natives the programs below call.

\* The env loadCoreFunctions is given: clojure.core, the first env created.
CoreEnv == 1

NativeNames ==
  { <<"list">>, <<"+">>, <<"=">>, <<"eval">>, <<"require">>, <<"macroexpand-1">> }

RECURSIVE Sum(_)
Sum(args) == IF args = <<>> THEN 0 ELSE Head(args).value + Sum(Tail(args))

\* The loop of the require native over its arguments.
RECURSIVE RequireAll(_, _, _)
RequireAll(args, currentEnv, m) ==
  IF args = <<>> THEN Res(m, Ok(cljNil))
  ELSE Bind(processRequireSpec(Head(args), currentEnv, m),
            LAMBDA x : RequireAll(Tail(args), currentEnv, x.m))

ApplyNative(name, args, m) ==
  CASE name = <<"list">> -> Res(m, Ok(cljList(args)))
    [] name = <<"+">> ->
         IF Len(args) = 0 THEN Res(m, Ok(cljNumber(0)))
         ELSE IF \E i \in DOMAIN args : args[i].kind # "number"
           THEN Res(m, EvaluationError(<<"+ expects all arguments to be numbers">>))
         ELSE Res(m, Ok(cljNumber(Sum(args))))
    [] name = <<"=">> ->
         IF Len(args) < 2 THEN Res(m, EvaluationError(<<"= expects at least two arguments">>))
         ELSE Res(m, Ok(cljBoolean(\A i \in 2..Len(args) : isEqual(args[i], args[i - 1]))))
    [] name = <<"eval">> ->
         IF At(args, 0).kind = "undefined"
           THEN Res(m, EvaluationError(<<"eval expects a form as argument">>))
           ELSE evaluate(args[1], CoreEnv, m)
    [] name = <<"require">> -> RequireAll(args, m.registry[m.currentNs], m)
    [] name = <<"macroexpand-1">> ->
         IF At(args, 0).kind = "undefined" THEN Res(m, TypeError)
         ELSE IF ~isList(args[1]) \/ Len(args[1].value) = 0 THEN Res(m, Ok(args[1]))
         ELSE IF ~isSymbol(args[1].value[1]) THEN Res(m, Ok(args[1]))
         ELSE IF lookup(args[1].value[1].name, CoreEnv, m).t # "ok" THEN Res(m, Ok(args[1]))
         ELSE IF ~isMacro(lookup(args[1].value[1].name, CoreEnv, m).v) THEN Res(m, Ok(args[1]))
         ELSE applyMacro(lookup(args[1].value[1].name, CoreEnv, m).v, SliceFrom(args[1].value, 1), m)
    [] OTHER -> Res(m, Throw("TypeError", <<"not a function">>))

-----------------------------------------------------------------------------
\* Session (session.ts)

\* A source text is given by what tokenize and parseForms make of it: the
\* error one of them throws, or the forms; empty says the text is "".
Text(forms) == [err |-> "", empty |-> FALSE, forms |-> forms]
BadText(cls) == [err |-> cls, empty |-> FALSE, forms |-> <<>>]

\* [r, form]: forms.find(f => isList(f) && isSymbol(f.value[0]) && ...).
RECURSIVE findNsForm(_)
findNsForm(forms) ==
  IF forms = <<>> THEN [r |-> Ok(cljNil), form |-> Undefined]
  ELSE IF isList(Head(forms)) /\ Len(Head(forms).value) = 0 THEN [r |-> TypeError, form |-> Undefined]
  ELSE IF isList(Head(forms)) /\ isSymbol(Head(forms).value[1]) /\ Head(forms).value[1].name = <<"ns">>
    THEN [r |-> Ok(cljNil), form |-> Head(forms)]
  ELSE findNsForm(Tail(forms))

NoName == <<"#null">>

\* [r, name]; NoName is null.
extractNsName(forms) ==
  LET f == findNsForm(forms)
  IN  IF f.r.t # "ok" THEN [r |-> f.r, name |-> NoName]
      ELSE IF f.form.kind = "undefined" THEN [r |-> Ok(cljNil), name |-> NoName]
      ELSE IF Len(f.form.value) > 1 /\ isSymbol(f.form.value[2])
        THEN [r |-> Ok(cljNil), name |-> f.form.value[2].name]
      ELSE [r |-> Ok(cljNil), name |-> NoName]

IsRequireClause(clause) ==
  isList(clause) /\ isKeyword(clause.value[1]) /\ clause.value[1].name = <<":require">>

RECURSIVE ConcatSpecs(_, _)
ConcatSpecs(value, i) ==
  IF i > Len(value) THEN <<>>
  ELSE (IF IsRequireClause(value[i]) THEN SliceFrom(value[i].value, 1) ELSE <<>>)
       \o ConcatSpecs(value, i + 1)

\* [r, specs]: the specs of every (:require ...) clause, in order.
extractRequireClauses(forms) ==
  LET f == findNsForm(forms)
  IN  IF f.r.t # "ok" THEN [r |-> f.r, specs |-> <<>>]
      ELSE IF f.form.kind = "undefined" THEN [r |-> Ok(cljNil), specs |-> <<>>]
      ELSE IF \E i \in 3..Len(f.form.value) :
                isList(f.form.value[i]) /\ Len(f.form.value[i].value) = 0
        THEN [r |-> TypeError, specs |-> <<>>]
      ELSE [r |-> Ok(cljNil), specs |-> ConcatSpecs(f.form.value, 3)]

RECURSIVE ReferAll(_, _, _, _, _)

\* :refer as it would be if the referring namespace were linked to the target
\* env, to see its bindings as they are at each lookup.
ReferAllLinked(syms, nsName, targetEnv, currentEnv, m) ==
  IF syms = <<>> THEN Res(m, Ok(cljNil))
  ELSE IF ~isSymbol(Head(syms))
    THEN Res(m, EvaluationError(<<":refer vector must contain only symbols">>))
  ELSE IF lookup(Head(syms).name, targetEnv, m).t # "ok"
    THEN Res(m, EvaluationError(<<"Symbol ">> \o Head(syms).name
                                \o <<" not found in namespace ">> \o nsName))
  ELSE ReferAll(Tail(syms), nsName, targetEnv, currentEnv,
                [m EXCEPT !.envs[currentEnv].outer = targetEnv])

\* The for loop of :refer.
ReferAll(syms, nsName, targetEnv, currentEnv, m) ==
  IF syms = <<>> THEN Res(m, Ok(cljNil))
  ELSE IF ~isSymbol(Head(syms))
    THEN Res(m, EvaluationError(<<":refer vector must contain only symbols">>))
  ELSE IF lookup(Head(syms).name, targetEnv, m).t # "ok"
    THEN Res(m, EvaluationError(<<"Symbol ">> \o Head(syms).name
                                \o <<" not found in namespace ">> \o nsName))
  ELSE ReferAll(Tail(syms), nsName, targetEnv, currentEnv,
                define(Head(syms).name, lookup(Head(syms).name, targetEnv, m).v, currentEnv, m))

\* setAlias as it would be if the alias kept a copy of the target env made at
\* the time of the require.
setAliasSnapshot(alias, targetEnv, currentEnv, m) ==
  [Alloc(m, m.envs[targetEnv]) EXCEPT !.envs[currentEnv].aliases = MapSet(@, alias, NewId(m))]

\* currentEnv.aliases.set(alias.name, targetEnv): the alias holds the env itself.
setAlias(alias, targetEnv, currentEnv, m) ==
  [m EXCEPT !.envs[currentEnv].aliases = MapSet(@, alias, targetEnv)]

\* The while loop over the options of a require spec; i counts from 0.
RECURSIVE RequireOptions(_, _, _, _, _, _)
RequireOptions(elements, i, nsName, targetEnv, currentEnv, m) ==
  IF i >= Len(elements) THEN Res(m, Ok(cljNil))
  ELSE IF ~isKeyword(elements[i + 1])
    THEN Res(m, EvaluationError(<<"Expected keyword in require spec, got ", elements[i + 1].kind>>))
  ELSE IF elements[i + 1].name = <<":as">>
    THEN IF ~isSymbol(At(elements, i + 1))
           THEN Res(m, EvaluationError(<<":as expects a symbol alias">>))
           ELSE RequireOptions(elements, i + 2, nsName, targetEnv, currentEnv,
                                  setAlias(elements[i + 2].name, targetEnv, currentEnv, m))
  ELSE IF elements[i + 1].name = <<":refer">>
    THEN IF ~isVector(At(elements, i + 1))
           THEN Res(m, EvaluationError(<<":refer expects a vector of symbols">>))
           ELSE Bind(ReferAll(elements[i + 2].value, nsName, targetEnv, currentEnv, m),
                     LAMBDA x : RequireOptions(elements, i + 2, nsName, targetEnv, currentEnv, x.m))
  ELSE Res(m, EvaluationError(<<"Unknown require option ">> \o elements[i + 1].name
                              \o <<". Supported: :as, :refer">>))

\* The host's call stack holds MaxDepth nested calls of resolveNamespace: one
\* more call exhausts it, and the host throws a RangeError at the call.
MaxDepth == 3

\* The rest of processRequireSpec once resolveNamespace, if any, has run.
RequireTarget(spec, nsName, currentEnv, m) ==
  IF nsName \notin DOMAIN m.registry
    THEN Res(m, EvaluationError(<<"Namespace ">> \o nsName
                   \o <<" not found. Only already-loaded namespaces can be required.">>))
    ELSE RequireOptions(spec.value, 1, nsName, m.registry[nsName], currentEnv, m)

processRequireSpec(spec, currentEnv, m) ==
  IF ~isVector(spec)
    THEN Res(m, EvaluationError(<<"require spec must be a vector, e.g. [my.ns :as alias]">>))
  ELSE IF Len(spec.value) = 0 \/ ~isSymbol(spec.value[1])
    THEN Res(m, EvaluationError(<<"First element of require spec must be a namespace symbol">>))
  ELSE IF spec.value[1].name \notin DOMAIN m.registry /\ m.lazy
    THEN IF Len(m.pending) >= MaxDepth
           THEN Res(m, Throw("RangeError", <<"Maximum call stack size exceeded">>))
           ELSE RequireTarget(spec, spec.value[1].name, currentEnv, resolveNamespace(spec.value[1].name, m))
  ELSE RequireTarget(spec, spec.value[1].name, currentEnv, m)

\* options.sourceRoots and options.readFile: the files the host can read.
SourceRoots == << <<"src">>, <<"lib", "/">> >>

\* root.replace(/\/$/, '')
StripSlash(root) ==
  IF Len(root) > 0 /\ root[Len(root)] = "/" THEN SliceTo(root, Len(root) - 1) ELSE root

\* nsName.replace(/\./g, '/')
DotsToSlashes(nsName) == [i \in DOMAIN nsName |-> IF nsName[i] = "." THEN "/" ELSE nsName[i]]

FilePath(root, nsName) == StripSlash(root) \o <<"/">> \o DotsToSlashes(nsName) \o <<".", "clj">>


\* Program text used by the files and the operations below.
Sym(n) == cljSymbol(<<n>>)
Kw(n) == cljKeyword(<<n>>)
Quoted(x) == cljList(<<Sym("quote"), x>>)
User == <<"user">>
ClojureCore == <<"clojure", ".", "core">>
MyUtils == <<"my", ".", "utils">>
MyApp == <<"my", ".", "app">>
BadEv == <<"bad", ".", "ev">>
BadTok == <<"bad", ".", "tok">>
MyBare == <<"my", ".", "bare">>
Hinted == <<"hinted">>
CycA == <<"cyc", ".", "a">>
CycB == <<"cyc", ".", "b">>
WrongName == <<"wrong", ".", "name">>
OtherName == <<"other", ".", "name">>
NsRequiring(ns, required, alias) ==
  cljList(<<Sym("ns"), cljSymbol(ns),
            cljList(<<Kw(":require"), cljVector(<<cljSymbol(required), Kw(":as"), Sym(alias)>>)>>)>>)
RequireAs(ns, alias) ==
  cljList(<<Sym("require"), Quoted(cljVector(<<cljSymbol(ns), Kw(":as"), Sym(alias)>>))>>)
RequireRefer(ns, name) ==
  cljList(<<Sym("require"), Quoted(cljVector(<<cljSymbol(ns), Kw(":refer"), cljVector(<<Sym(name)>>)>>))>>)
NsForm(ns) == cljList(<<Sym("ns"), cljSymbol(ns)>>)
Def(n, x) == cljList(<<Sym("def"), Sym(n), x>>)

UHelper == cljSymbol(<<"u", "/", "helper">>)
Thunk(body) == cljList(<<Sym("fn"), cljVector(<<>>), body>>)
CallQualified(alias, name) == cljList(<<cljSymbol(<<alias, "/", name>>)>>)

\* The source texts, by label.
Source(label) ==
  CASE label = "utils" -> Text(<<NsForm(MyUtils), Def("helper", cljNumber(42))>>)
    [] label = "utils-v2" ->
         Text(<<NsForm(MyUtils), Def("helper", cljNumber(99)), Def("added", cljNumber(1))>>)
    [] label = "bad-ev" -> Text(<<NsForm(BadEv), Def("a", cljNumber(1)), cljList(<<Sym("a")>>)>>)
    [] label = "bad-tok" -> BadText("TokenizerError")
    [] label = "bad-parse" -> BadText("ParserError")
    [] label = "require-utils" -> Text(<<RequireAs(MyUtils, "u")>>)
    [] label = "app-fn" -> Text(<<NsRequiring(MyApp, MyUtils, "u"), Def("f", Thunk(UHelper))>>)
    [] label = "bare-fn" -> Text(<<NsForm(MyBare), Def("g", Thunk(UHelper))>>)
    [] label = "call-f" -> Text(<<RequireAs(MyApp, "a"), CallQualified("a", "f")>>)
    [] label = "call-g" -> Text(<<RequireAs(MyBare, "b"), CallQualified("b", "g")>>)
    [] label = "refer-helper" -> Text(<<RequireRefer(MyUtils, "helper")>>)
    [] label = "require-use" ->
         Text(<<RequireAs(MyUtils, "u"), Def("result", cljSymbol(<<"u", "/", "helper">>))>>)
    [] label = "cyc-a" -> Text(<<NsRequiring(CycA, CycB, "b"), Def("a", cljNumber(1))>>)
    [] label = "cyc-b" -> Text(<<NsRequiring(CycB, CycA, "a"), Def("b", cljNumber(2))>>)
    [] label = "wrong-name" -> Text(<<NsRequiring(OtherName, WrongName, "w")>>)
    [] label = "require-cyc" -> Text(<<RequireAs(CycA, "a")>>)
    [] label = "require-wrong" -> Text(<<RequireAs(WrongName, "w")>>)
    [] label = "require-bad-ev" -> Text(<<RequireAs(BadEv, "b")>>)
    [] label = "require-bad-tok" -> Text(<<RequireAs(BadTok, "t")>>)
    [] label = "u-helper" -> Text(<<cljSymbol(<<"u", "/", "helper">>)>>)
    [] label = "u-added" -> Text(<<cljSymbol(<<"u", "/", "added">>)>>)
    [] label = "recur" -> Text(<<cljList(<<Sym("recur"), cljNumber(1)>>)>>)
    [] label = "def-x" -> Text(<<Def("x", cljNumber(1))>>)
    [] label = "late-ns" -> Text(<<Def("y", cljNumber(2)), NsForm(MyUtils)>>)
    [] label = "two-ns" -> Text(<<NsForm(MyApp), NsForm(MyUtils), Def("z", cljNumber(3))>>)
    [] label = "app" ->
         Text(<<cljList(<<Sym("ns"), cljSymbol(MyApp),
                          cljList(<<Kw(":require"),
                                    cljVector(<<cljSymbol(MyUtils), Kw(":as"), Sym("u")>>)>>)>>),
                Def("result", cljSymbol(<<"u", "/", "helper">>))>>)
    [] OTHER -> Text(<<>>)

\* options.readFile(path): [r, source]; it throws for a file it does not have.
ReadFile(path) ==
  CASE path = FilePath(<<"src">>, MyUtils) -> [r |-> Ok(cljNil), source |-> Source("utils")]
    [] path = FilePath(<<"lib">>, BadEv) -> [r |-> Ok(cljNil), source |-> Source("bad-ev")]
    [] path = FilePath(<<"src">>, BadTok) -> [r |-> Ok(cljNil), source |-> Source("bad-tok")]
    [] path = FilePath(<<"src">>, CycA) -> [r |-> Ok(cljNil), source |-> Source("cyc-a")]
    [] path = FilePath(<<"lib">>, CycB) -> [r |-> Ok(cljNil), source |-> Source("cyc-b")]
    [] path = FilePath(<<"src">>, WrongName) -> [r |-> Ok(cljNil), source |-> Source("wrong-name")]
    [] OTHER -> [r |-> Throw("Error", <<"File not found: ">> \o path), source |-> Text(<<>>)]

\* ensureNs as it would be if a new namespace were made under the current one.
ensureNsUnderCurrent(name, m) ==
  IF name \notin DOMAIN m.registry
    THEN [m |-> [Alloc(m, [makeEnv(m.registry[m.currentNs]) EXCEPT !.namespace = name])
                   EXCEPT !.registry = MapSet(@, name, NewId(m))],
          env |-> NewId(m)]
    ELSE [m |-> m, env |-> m.registry[name]]

\* [m, env]
ensureNs(name, m) ==
  IF name \notin DOMAIN m.registry
    THEN [m |-> [Alloc(m, [makeEnv(CoreEnv) EXCEPT !.namespace = name])
                   EXCEPT !.registry = MapSet(@, name, NewId(m))],
          env |-> NewId(m)]
    ELSE [m |-> m, env |-> m.registry[name]]

setNs(name, m) == [ensureNs(name, m).m EXCEPT !.currentNs = name]

RECURSIVE RequireSpecs(_, _, _)
RequireSpecs(specs, env, m) ==
  IF specs = <<>> THEN Res(m, Ok(cljNil))
  ELSE Bind(processRequireSpec(Head(specs), env, m),
            LAMBDA x : RequireSpecs(Tail(specs), env, x.m))

processNsRequires(forms, env, m) ==
  IF extractRequireClauses(forms).r.t # "ok" THEN Res(m, extractRequireClauses(forms).r)
  ELSE RequireSpecs(extractRequireClauses(forms).specs, env, m)

\* parseForms(tokenize(source)): [r, forms]
ParseSource(source) ==
  IF source.err # "" THEN [r |-> Throw(source.err, <<source.err>>), forms |-> <<>>]
  ELSE [r |-> Ok(cljNil), forms |-> source.forms]

\* The target as it would be if the nsName argument came before the ns form.
TargetNsHintFirst(forms, nsName) ==
  IF nsName # NoName THEN nsName
  ELSE IF extractNsName(forms).name # NoName THEN extractNsName(forms).name
  ELSE User

\* extractNsName(forms) ?? nsName ?? 'user'
TargetNs(forms, nsName) ==
  IF extractNsName(forms).name # NoName THEN extractNsName(forms).name
  ELSE IF nsName # NoName THEN nsName
  ELSE User

\* The statements of loadFile after targetNs is known.
LoadInto(forms, env, m) ==
  Bind(processNsRequires(forms, env, m),
       LAMBDA q : Bind(evaluateForms(forms, env, q.m),
                       LAMBDA x : Res(x.m, Ok(Undefined))))

\* loadFile as it would be if it made the file's namespace the current one.
LoadFileBodySettingNs(source, nsName, m) ==
  IF ParseSource(source).r.t # "ok" THEN Res(m, ParseSource(source).r)
  ELSE IF extractNsName(source.forms).r.t # "ok" THEN Res(m, extractNsName(source.forms).r)
  ELSE LoadInto(source.forms,
                ensureNs(TargetNs(source.forms, nsName), m).env,
                setNs(TargetNs(source.forms, nsName), m))

LoadFileBody(source, nsName, m) ==
  IF ParseSource(source).r.t # "ok" THEN Res(m, ParseSource(source).r)
  ELSE IF extractNsName(source.forms).r.t # "ok" THEN Res(m, extractNsName(source.forms).r)
  ELSE LoadInto(source.forms,
                ensureNs(TargetNs(source.forms, nsName), m).env,
                ensureNs(TargetNs(source.forms, nsName), m).m)

\* What a loadFile call throws is also recorded in thrown.
Thrown(x) ==
  IF x.r.t # "ok" THEN Res([x.m EXCEPT !.thrown = Append(@, x.r)], x.r) ELSE x

loadFile(source, nsName, m) == Thrown(LoadFileBody(source, nsName, m))

\* options.readFile(filePath) is called: the call is recorded with the namespace
\* being resolved, whether the registry held that namespace at the call, and
\* the resolveNamespace calls on the stack at the call (the innermost last).
Read(path, nsName, m) ==
  [m EXCEPT !.reads = Append(@, [path |-> path, ns |-> nsName,
                                 loaded |-> nsName \in DOMAIN m.registry,
                                 pending |-> m.pending])]

\* catch { continue } / return true
RECURSIVE TryRoots(_, _, _)
AfterLoad(x, roots, nsName) ==
  IF x.r.t # "ok" THEN TryRoots(roots, nsName, x.m) ELSE x.m

\* The loop of resolveNamespace over the source roots; the catch takes
\* whatever readFile or loadFile throws and goes on to the next root.
TryRoots(roots, nsName, m) ==
  IF roots = <<>> THEN m
  ELSE IF ReadFile(FilePath(Head(roots), nsName)).r.t # "ok"
          \/ ReadFile(FilePath(Head(roots), nsName)).source.empty
    THEN TryRoots(Tail(roots), nsName, Read(FilePath(Head(roots), nsName), nsName, m))
  ELSE AfterLoad(loadFile(ReadFile(FilePath(Head(roots), nsName)).source, NoName,
                          Read(FilePath(Head(roots), nsName), nsName, m)),
                 Tail(roots), nsName)

\* pending is the host's call stack as far as resolveNamespace is on it.
resolveNamespace(nsName, m) ==
  [TryRoots(SourceRoots, nsName, [m EXCEPT !.pending = Append(@, nsName)])
     EXCEPT !.pending = m.pending]

\* catch (e) { if (e instanceof RecurSignal) throw new EvaluationError(...); throw e }
CatchRecur(x) ==
  OnRecur(x, LAMBDA e : Res(e.m, EvaluationError(<<"recur called outside of loop or fn">>)))

sessionEvaluate(source, m) ==
  CatchRecur(IF ParseSource(source).r.t # "ok" THEN Res(m, ParseSource(source).r)
             ELSE Bind(processNsRequires(source.forms, m.registry[m.currentNs], m),
                       LAMBDA q : evaluateForms(source.forms, m.registry[m.currentNs], q.m)))

sessionEvaluateForms(forms, m) ==
  CatchRecur(evaluateForms(forms, m.registry[m.currentNs], m))

\* The loop of createSession over options.entries.
RECURSIVE LoadEntries(_, _)
LoadEntries(entries, m) ==
  IF entries = <<>> THEN Res(m, Ok(Undefined))
  ELSE Bind(loadFile(Source(Head(entries)), NoName, m),
            LAMBDA x : LoadEntries(Tail(entries), x.m))

-----------------------------------------------------------------------------
\* The session as a state machine.

Machine ==
  [registry |-> registry, envs |-> envs, currentNs |-> currentNs, lazy |-> lazy,
   reads |-> reads, thrown |-> <<>>, pending |-> <<>>]

Commit(m) ==
  /\ registry' = m.registry
  /\ envs' = m.envs
  /\ currentNs' = m.currentNs
  /\ reads' = m.reads
  /\ thrown' = m.thrown
  /\ lazy' = lazy
  /\ arrays' = arrays

\* An operation ends: its effects and what it returned or threw.
Finish(x) == Commit(x.m) /\ outcome' = x.r

\* createSession ends: a throw from an entry leaves no session.
Created(x) == Finish(x) /\ phase' = (IF x.r.t = "ok" THEN "ready" ELSE "failed")

\* The operation performed: its name and arguments (src a source label, hint
\* the nsName argument, forms the forms given, env the env argument of
\* evaluate, 0 where there is none), and for the evaluator inputs below the
\* parameters the forms were built from.
NoParams == [shape |-> <<>>, n |-> 0, k |-> 0]
Operation(name, src, hint, forms) ==
  [name |-> name, src |-> src, hint |-> hint, forms |-> forms, env |-> 0, of |-> NoParams]

CoreBindings == [n \in NativeNames |-> cljNativeFunction(n)]

\* createSession up to the loading of the entries: clojure.core with the
\* natives, user, and the current namespace user.
Fresh(lz) ==
  [envs |-> << [makeEnv(0) EXCEPT !.namespace = ClojureCore, !.bindings = CoreBindings],
               [makeEnv(CoreEnv) EXCEPT !.namespace = User] >>,
   registry |-> MapSet(MapSet(EmptyMap, ClojureCore, 1), User, 2),
   currentNs |-> User, lazy |-> lz, reads |-> <<>>, thrown |-> <<>>, pending |-> <<>>]

Init ==
  /\ lazy \in BOOLEAN
  /\ envs = Fresh(lazy).envs
  /\ registry = Fresh(lazy).registry
  /\ currentNs = Fresh(lazy).currentNs
  /\ reads = <<>>
  /\ thrown = <<>>
  /\ phase = "constructing"
  /\ steps = 0
  /\ op = Operation("none", "", NoName, <<>>)
  /\ outcome = Ok(Undefined)
  /\ arrays = <<>>

EntryLists ==
  { <<>>, <<"def-x">>, <<"utils", "recur">>, <<"utils", "require-utils">>,
    <<"utils", "require-utils", "app-fn", "bare-fn">> }

CreateSession(entries) ==
  /\ phase = "constructing"
  /\ Created(LoadEntries(entries, Machine))
  /\ op' = Operation("createSession", "", NoName, <<>>)
  /\ steps' = steps

Ready == phase = "ready" /\ steps < MaxOps

SetNsNames == { MyUtils, User }

SetNs(name) ==
  /\ Ready
  /\ Commit(setNs(name, Machine))
  /\ outcome' = Ok(Undefined)
  /\ op' = Operation("setNs", "", name, <<>>)
  /\ UNCHANGED phase
  /\ steps' = steps + 1

LoadSources ==
  { "utils-v2", "def-x", "late-ns", "two-ns", "recur", "app", "bad-parse", "require-use" }
Hints == { NoName, Hinted }

LoadFile(src, hint) ==
  /\ Ready
  /\ Finish(loadFile(Source(src), hint, Machine))
  /\ op' = Operation("loadFile", src, hint, <<>>)
  /\ UNCHANGED phase
  /\ steps' = steps + 1

EvalSources ==
  { "require-utils", "require-bad-ev", "require-bad-tok", "u-helper", "u-added",
    "recur", "def-x", "app", "bad-parse", "require-cyc", "require-wrong", "refer-helper",
    "call-f", "call-g" }

Evaluate(src) ==
  /\ Ready
  /\ Finish(sessionEvaluate(Source(src), Machine))
  /\ op' = Operation("evaluate", src, NoName, <<>>)
  /\ UNCHANGED phase
  /\ steps' = steps + 1

FormLists ==
  { <<cljList(<<Sym("recur")>>)>>, <<Def("helper", cljNumber(7)), Sym("helper")>> }

EvaluateForms(forms) ==
  /\ Ready
  /\ Finish(sessionEvaluateForms(forms, Machine))
  /\ op' = Operation("evaluateForms", "", NoName, forms)
  /\ UNCHANGED phase
  /\ steps' = steps + 1

Next ==
  \/ \E entries \in EntryLists : CreateSession(entries)
  \/ \E name \in SetNsNames : SetNs(name)
  \/ \E src \in LoadSources, hint \in Hints : LoadFile(src, hint)
  \/ \E src \in EvalSources : Evaluate(src)
  \/ \E forms \in FormLists : EvaluateForms(forms)

Spec == Init /\ [][Next]_vars

-----------------------------------------------------------------------------
\* The evaluator on its own: one call of evaluate or of session.evaluateForms
\* on an input drawn from the families below, in the session made by
\* createSession({entries: [utils, require-utils]}): my.utils is loaded and
\* user has the alias u for it.

\* Fixed parameters per arity, arities per function, arguments per call.
MaxParams == 2
MaxArities == 2
MaxArgs == 3

\* The shape of an arity: n fixed parameters and whether a rest parameter follows.
ArityShapes == [n : 0..MaxParams, rest : BOOLEAN]
FnShapes == UNION { [1..a -> ArityShapes] : a \in 1..MaxArities }

Param(i) == cljSymbol(<<"p", NumText(i)>>)
ParamVector(c) ==
  cljVector([i \in 1..c.n |-> Param(i)] \o (IF c.rest THEN <<cljSymbol(Amp), Sym("more")>> ELSE <<>>))

\* The body of the i-th arity answers with the keyword :a<i>.
Tag(i) == cljKeyword(<<":a", NumText(i)>>)

\* (fn ([p1 ...] :a1) ([p1 ... & more] :a2) ...)
TaggedClauses(shape) == [i \in DOMAIN shape |-> cljList(<<ParamVector(shape[i]), Tag(i)>>)]
TagFn(shape) == cljList(<<Sym("fn")>> \o TaggedClauses(shape))
TagMacro(shape) == cljList(<<Sym("defmacro"), Sym("mac")>> \o TaggedClauses(shape))

\* An arity with a first parameter recurs with k times false while that
\* parameter is truthy: (if p1 (recur false ...) :a<i>).
RecurBody(c, i, k) ==
  IF c.n = 0 THEN Tag(i)
  ELSE cljList(<<Sym("if"), Param(1),
                 cljList(<<Sym("recur")>> \o [j \in 1..k |-> cljBoolean(FALSE)]),
                 Tag(i)>>)
RecurFn(shape, k) ==
  cljList(<<Sym("fn")>>
          \o [i \in DOMAIN shape |-> cljList(<<ParamVector(shape[i]), RecurBody(shape[i], i, k)>>)])

\* (f arg ... arg), n arguments.
Call(f, n, arg) == cljList(<<f>> \o [j \in 1..n |-> arg])

Input(name, src, forms, shape, n, k) ==
  [name |-> name, src |-> src, hint |-> NoName, forms |-> forms, env |-> 0,
   of |-> [shape |-> shape, n |-> n, k |-> k]]

Prepared == LoadEntries(<<"utils", "require-utils">>, Fresh(FALSE)).m

IdentityArity == [params |-> <<Sym("x")>>, restParam |-> NoRest, body |-> <<Sym("x")>>]

\* A value of each kind evaluate is said to return as it is.
SelfValues ==
  { cljNumber(0), cljNumber(1), cljString(<<"s">>), cljBoolean(TRUE), cljBoolean(FALSE),
    cljNil, Kw(":k"),
    cljMultiArityFunction(<<IdentityArity>>, Prepared.registry[User]),
    cljNativeFunction(<<"+">>),
    cljMultiArityMacro(<<IdentityArity>>, Prepared.registry[User]) }

SymbolNames ==
  { <<"+">>, <<"list">>, <<"helper">>, <<"nope">>, <<"u", "/", "helper">>,
    <<"u", "/", "nope">>, <<"v", "/", "helper">> }

\* (eval (list + 1 2)): the list eval is given holds the native function itself.
EvalOfNative ==
  cljList(<<Sym("eval"), cljList(<<Sym("list"), Sym("+"), cljNumber(1), cljNumber(2)>>)>>)

OtherForms ==
  { EvalOfNative,
    cljList(<<Sym("def")>>),
    cljList(<<Sym("+"), cljNumber(1), Kw(":k")>>),
    cljList(<<Sym("fn"), cljVector(<<Sym("x"), cljSymbol(Amp), Sym("r")>>), Sym("x")>>),
    cljList(<<Sym("fn"), cljVector(<<cljSymbol(Amp), Sym("r"), Sym("x")>>), Sym("x")>>) }

\* (def d expr) at the top level and below let, loop and fn: n is the number
\* expr yields, k the env the closure called was made in (0: no closure).
\* The lexical names are bound to other numbers than n.
DefIn(value) == Def("d", cljNumber(value))
ClosureOver(env, body) ==
  cljMultiArityFunction(<<[params |-> <<>>, restParam |-> NoRest, body |-> <<body>>]>>, env)
DefInputs ==
  { Input("evaluate", "def", <<DefIn(5)>>, <<>>, 5, 0),
    Input("evaluate", "def", <<cljList(<<Sym("let"), cljVector(<<Sym("d"), cljNumber(1)>>), DefIn(2)>>)>>,
          <<>>, 2, 0),
    Input("evaluate", "def",
          <<cljList(<<Sym("let"), cljVector(<<Sym("a"), cljNumber(1)>>),
                      cljList(<<Sym("let"), cljVector(<<Sym("b"), cljNumber(2)>>),
                                Def("d", Sym("b"))>>)>>)>>,
          <<>>, 2, 0),
    Input("evaluate", "def",
          <<cljList(<<Sym("loop"), cljVector(<<Sym("y"), cljNumber(3)>>), Def("d", Sym("y"))>>)>>,
          <<>>, 3, 0),
    Input("evaluate", "def",
          <<cljList(<<cljList(<<Sym("fn"), cljVector(<<Sym("y")>>), Def("d", Sym("y"))>>),
                      cljNumber(4)>>)>>,
          <<>>, 4, 0) }
  \cup { Input("evaluate", "def", <<cljList(<<ClosureOver(e, DefIn(6))>>)>>, <<>>, 6, e) :
           e \in DOMAIN Prepared.envs }

\* A program that makes a closure f with the free variable x and calls it:
\* x is defined in the namespace before f is made (defined) or not, f is made
\* at the top level or under (let [x 5] ...) (captured), x is defined again
\* after f was made (redefined) or not, and f is called at the top level or
\* under (let [x 9] ...) (shadowed).
FnOfX == cljList(<<Sym("fn"), cljVector(<<>>), Sym("x")>>)
LetX(value, body) == cljList(<<Sym("let"), cljVector(<<Sym("x"), cljNumber(value)>>), body>>)
ClosureProgram(defined, captured, redefined, shadowed) ==
  (IF defined THEN <<Def("x", cljNumber(1))>> ELSE <<>>)
  \o <<Def("f", IF captured THEN LetX(5, FnOfX) ELSE FnOfX)>>
  \o (IF redefined THEN <<Def("x", cljNumber(2))>> ELSE <<>>)
  \o <<IF shadowed THEN LetX(9, cljList(<<Sym("f")>>)) ELSE cljList(<<Sym("f")>>)>>

\* What x is bound to, when f is called, on the env chain f captured; 0: unbound.
SeenByClosure(defined, captured, redefined) ==
  IF captured THEN 5 ELSE IF redefined THEN 2 ELSE IF defined THEN 1 ELSE 0

ClosureInputs ==
  { Input("evaluateForms", "closure", ClosureProgram(d, c, r, s), <<>>,
          SeenByClosure(d, c, r), IF s THEN 1 ELSE 0) :
      d \in BOOLEAN, c \in BOOLEAN, r \in BOOLEAN, s \in BOOLEAN }

\* Programs that define a macro m and call it.  n is the number the call is
\* to yield (0: the argument form itself), k is 1 when the expansion holds the
\* argument form (def side 1), so that evaluating the expansion defines side.
SideDef == Def("side", cljNumber(1))
Defmacro(params, body) == cljList(<<Sym("defmacro"), Sym("m"), cljVector(params), body>>)
MacroInputs ==
  { \* (defmacro m [a] 42) (m (def side 1))
    Input("evaluateForms", "macro",
          <<Defmacro(<<Sym("a")>>, cljNumber(42)), cljList(<<Sym("m"), SideDef>>)>>, <<>>, 42, 0),
    \* (defmacro m [a] (list 'quote a)) (m (def side 1))
    Input("evaluateForms", "macro",
          <<Defmacro(<<Sym("a")>>, cljList(<<Sym("list"), Quoted(Sym("quote")), Sym("a")>>)),
            cljList(<<Sym("m"), SideDef>>)>>, <<>>, 0, 0),
    \* (defmacro m [a] a) (let [x 7] (m x))
    Input("evaluateForms", "macro",
          <<Defmacro(<<Sym("a")>>, Sym("a")), LetX(7, cljList(<<Sym("m"), Sym("x")>>))>>, <<>>, 7, 0),
    \* (defmacro m [a] (list 'do a 8)) (m (def side 1))
    Input("evaluateForms", "macro",
          <<Defmacro(<<Sym("a")>>, cljList(<<Sym("list"), Quoted(Sym("do")), Sym("a"), cljNumber(8)>>)),
            cljList(<<Sym("m"), SideDef>>)>>, <<>>, 8, 1),
    \* (def x 1) (defmacro m [] x) (let [x 9] (m))
    Input("evaluateForms", "macro",
          <<Def("x", cljNumber(1)), Defmacro(<<>>, Sym("x")), LetX(9, cljList(<<Sym("m")>>))>>,
          <<>>, 1, 0) }

\* Programs that end with (macroexpand-1 'form), most after
\* (defmacro m [a] (list 'do a)).
DoMacro == Defmacro(<<Sym("a")>>, cljList(<<Sym("list"), Quoted(Sym("do")), Sym("a")>>))
Expand(form) == cljList(<<Sym("macroexpand-1"), Quoted(form)>>)
CallOf(name) == cljList(<<cljSymbol(name), cljNumber(1)>>)
ExpandInputs ==
  { Input("evaluateForms", "expand", forms, <<>>, 0, 0) : forms \in
      { <<DoMacro, Expand(CallOf(<<"m">>))>>,
        <<DoMacro, Expand(CallOf(<<"+">>))>>,
        <<DoMacro, Expand(CallOf(<<"nope">>))>>,
        <<DoMacro, Expand(cljNumber(42))>>,
        <<DoMacro, Expand(cljList(<<>>))>>,
        <<DoMacro, Expand(cljList(<<cljNumber(1), Sym("m")>>))>>,
        <<DoMacro, Expand(cljVector(<<Sym("m"), cljNumber(1)>>))>>,
        \* m is defined again in user, as a number
        <<DoMacro, Def("m", cljNumber(5)), Expand(CallOf(<<"m">>))>>,
        \* the macro is bound to a second name in user
        <<DoMacro, Def("mm", Sym("m")), Expand(CallOf(<<"mm">>))>>,
        \* the macro is named through the alias u
        <<DoMacro, Expand(CallOf(<<"u", "/", "m">>))>> } }

\* Quasiquote templates: atoms, ~x, and lists and vectors of up to
\* MaxElements elements, each an atom, ~x, ~@xs, or a list, vector or map
\* that holds one of these.
MaxElements == 2
Unquote(x) == cljList(<<Sym("unquote"), x>>)
UnquoteSplicing(x) == cljList(<<Sym("unquote-splicing"), x>>)
TemplateAtoms == { Sym("a"), cljNumber(1), Kw(":k"), cljNil }
TemplateElements ==
  { Sym("a"), cljNumber(1), Unquote(Sym("x")), UnquoteSplicing(Sym("xs")),
    cljList(<<Sym("b"), Unquote(Sym("x"))>>),
    cljVector(<<UnquoteSplicing(Sym("xs"))>>),
    cljMap(<< <<Kw(":k"), Unquote(Sym("x"))>> >>) }
ElementLists == UNION { [1..n -> TemplateElements] : n \in 0..MaxElements }
Templates ==
  TemplateAtoms \cup { Unquote(Sym("x")), UnquoteSplicing(Sym("xs")) }
  \cup { cljList(es) : es \in ElementLists } \cup { cljVector(es) : es \in ElementLists }
  \cup { cljMap(<< <<Kw(":k"), e>> >>) :
           e \in { cljNumber(1), Unquote(Sym("x")), UnquoteSplicing(Sym("xs")) } }

\* The forms xs is bound to: they yield a vector, a list, a number.
SpliceForms ==
  << cljVector(<<cljNumber(1), cljNumber(2)>>),
     Quoted(cljList(<<cljNumber(1), cljNumber(2)>>)),
     cljNumber(5) >>

\* (let [x 7 xs <form k>] (quasiquote template))
QuasiProgram(template, k) ==
  cljList(<<Sym("let"), cljVector(<<Sym("x"), cljNumber(7), Sym("xs"), SpliceForms[k]>>),
            cljList(<<Sym("quasiquote"), template>>)>>)
QuasiInputs ==
  { Input("evaluateForms", "quasiquote", <<QuasiProgram(t, k)>>, <<>>, 0, k) :
      t \in Templates, k \in DOMAIN SpliceForms }

\* (def v expr) (= v v) for an expression of every kind of value; the macro
\* is the one (defmacro m ...) made.
ValueExprs ==
  { cljNumber(1), cljString(<<"s">>), cljBoolean(TRUE), cljBoolean(FALSE), cljNil, Kw(":k"),
    Quoted(Sym("a")),
    Quoted(cljList(<<cljNumber(1), Sym("a")>>)),
    cljVector(<<>>),
    cljVector(<<cljNumber(1), cljVector(<<Kw(":k")>>)>>),
    cljMap(<<>>),
    cljMap(<< <<Kw(":a"), cljNumber(1)>>, <<Kw(":b"), cljVector(<<cljNumber(2)>>)>> >>),
    cljList(<<Sym("fn"), cljVector(<<>>), cljNumber(1)>>),
    Sym("+"),
    Sym("m") }
SameValue == cljList(<<Sym("="), Sym("v"), Sym("v")>>)
ReflexiveInputs ==
  { Input("evaluateForms", "reflexive", <<DoMacro, Def("v", e), SameValue>>, <<>>, 0, 0) :
      e \in ValueExprs }

\* Map literals of up to MaxEntries entries, in every order, a key written
\* twice included (the reader keeps both entries), and (= m1 m2) for every
\* two of them.
MaxEntries == 2
NestedAB == cljMap(<< <<Kw(":a"), cljNumber(1)>>, <<Kw(":b"), cljNumber(1)>> >>)
NestedBA == cljMap(<< <<Kw(":b"), cljNumber(1)>>, <<Kw(":a"), cljNumber(1)>> >>)
MapEntries ==
  { <<Kw(":a"), cljNumber(1)>>, <<Kw(":a"), cljNumber(2)>>,
    <<cljVector(<<cljNumber(1)>>), NestedAB>>, <<cljVector(<<cljNumber(1)>>), NestedBA>> }
MapLiterals == { cljMap(es) : es \in UNION { [1..n -> MapEntries] : n \in 0..MaxEntries } }
MapEqualInputs ==
  { Input("evaluateForms", "map-equal", <<cljList(<<Sym("="), m1, m2>>)>>, <<>>, 0, 0) :
      m1 \in MapLiterals, m2 \in MapLiterals }

\* Loops and functions that count their iterations in runs and recur once,
\* with k arguments: (def runs 0) before, and as the body
\* (def runs (+ runs 1)) (if (= runs 1) (recur false ...) :done).
CountRun == Def("runs", cljList(<<Sym("+"), Sym("runs"), cljNumber(1)>>))
OnceMore(k) ==
  cljList(<<Sym("if"), cljList(<<Sym("="), Sym("runs"), cljNumber(1)>>),
            cljList(<<Sym("recur")>> \o [j \in 1..k |-> cljBoolean(FALSE)]),
            Kw(":done")>>)
\* (loop [p1 true ... pj true] ...)
LoopRecur(j, k) ==
  cljList(<<Sym("loop"),
            cljVector([i \in 1..(2 * j) |-> IF i % 2 = 1 THEN Param((i + 1) \div 2) ELSE cljBoolean(TRUE)]),
            CountRun, OnceMore(k)>>)
\* ((fn [p1 ... & more] ...) true ...), called with as many arguments as
\* there are fixed parameters.
FnRecur(c, k) ==
  Call(cljList(<<Sym("fn"), ParamVector(c), CountRun, OnceMore(k)>>), c.n, cljBoolean(TRUE))
RecurCountInputs ==
  { Input("evaluateForms", "loop-recur", <<Def("runs", cljNumber(0)), LoopRecur(j, k)>>,
          <<[n |-> j, rest |-> FALSE]>>, j, k) : j \in 0..MaxParams, k \in 0..MaxArgs }
  \cup { Input("evaluateForms", "fn-recur", <<Def("runs", cljNumber(0)), FnRecur(c, k)>>,
               <<c>>, c.n, k) : c \in ArityShapes, k \in 0..MaxArgs }

\* A loop that tells what it did: its two init expressions count themselves
\* in inits, its body appends the values it sees for a and b to log, and it
\* recurs until a is t, then answers with a closure made in that iteration.
\*   (def inits 0) (def log nil)
\*   (loop [a (do (def inits (+ inits 1)) inits)
\*          b (do (def inits (+ inits 1)) (list a inits))]
\*     (def log (list log a b))
\*     (if (= a t) (fn [] a) (recur (+ a 1) a)))
\* alone or inside (let [x 7] ...).
MaxIterations == 3
CountInit(value) ==
  cljList(<<Sym("do"), Def("inits", cljList(<<Sym("+"), Sym("inits"), cljNumber(1)>>)), value>>)
TellingLoop(t) ==
  cljList(<<Sym("loop"),
            cljVector(<<Sym("a"), CountInit(Sym("inits")),
                        Sym("b"), CountInit(cljList(<<Sym("list"), Sym("a"), Sym("inits")>>))>>),
            Def("log", cljList(<<Sym("list"), Sym("log"), Sym("a"), Sym("b")>>)),
            cljList(<<Sym("if"), cljList(<<Sym("="), Sym("a"), cljNumber(t)>>),
                      cljList(<<Sym("fn"), cljVector(<<>>), Sym("a")>>),
                      cljList(<<Sym("recur"), cljList(<<Sym("+"), Sym("a"), cljNumber(1)>>), Sym("a")>>)>>)>>)
LoopInputs ==
  { Input("evaluateForms", "loop",
          <<Def("inits", cljNumber(0)), Def("log", cljNil),
            IF inLet = 1 THEN LetX(7, TellingLoop(t)) ELSE TellingLoop(t)>>,
          <<>>, inLet, t) : inLet \in 0..1, t \in 1..MaxIterations }

\* A loop or function inside a loop or function, each recurring on its own
\* count and each telling log what it sees:
\*   (def log nil)
\*   (loop [i 1 k 0]                       or ((fn [i k] ...) 1 0)
\*     (def log (list log :outer i))
\*     (loop [j 1]                         or ((fn [j] ...) 1)
\*       (def log (list log :inner i j))
\*       (if (= j inner) nil (recur (+ j 1))))
\*     (if (= i outer) :done (recur (+ i 1) i)))
Increment(name) == cljList(<<Sym("+"), Sym(name), cljNumber(1)>>)
Until(name, last, value, again) ==
  cljList(<<Sym("if"), cljList(<<Sym("="), Sym(name), cljNumber(last)>>), value,
            cljList(<<Sym("recur")>> \o again)>>)
Recurring(kind, names, inits, body) ==
  IF kind = "loop"
    THEN cljList(<<Sym("loop"),
                   cljVector([i \in 1..(2 * Len(names)) |->
                                IF i % 2 = 1 THEN Sym(names[(i + 1) \div 2]) ELSE inits[i \div 2]])>>
                 \o body)
    ELSE cljList(<<cljList(<<Sym("fn"), cljVector([i \in DOMAIN names |-> Sym(names[i])])>> \o body)>>
                 \o inits)
InnerForm(kind, inner) ==
  Recurring(kind, <<"j">>, <<cljNumber(1)>>,
            <<Def("log", cljList(<<Sym("list"), Sym("log"), Kw(":inner"), Sym("i"), Sym("j")>>)),
              Until("j", inner, cljNil, <<Increment("j")>>)>>)
OuterForm(kind, outer, innerForm) ==
  Recurring(kind, <<"i", "k">>, <<cljNumber(1), cljNumber(0)>>,
            <<Def("log", cljList(<<Sym("list"), Sym("log"), Kw(":outer"), Sym("i")>>)),
              innerForm,
              Until("i", outer, Kw(":done"), <<Increment("i"), Sym("i")>>)>>)
NestedInputs ==
  { Input("evaluateForms", "nested",
          <<Def("log", cljNil), OuterForm(kinds[1], outer, InnerForm(kinds[2], inner))>>,
          kinds, outer, inner) :
      kinds \in {"loop", "fn"} \X {"loop", "fn"}, outer \in 1..MaxIterations, inner \in 1..MaxIterations }

EvalInputs ==
  { Input("evaluate", "value", <<v>>, <<>>, 0, 0) : v \in SelfValues }
  \cup DefInputs
  \cup ClosureInputs
  \cup MacroInputs
  \cup ExpandInputs
  \cup QuasiInputs
  \cup ReflexiveInputs
  \cup MapEqualInputs
  \cup RecurCountInputs
  \cup LoopInputs
  \cup NestedInputs
  \cup { Input("evaluateForms", "symbol", <<cljSymbol(s)>>, <<>>, 0, 0) : s \in SymbolNames }
  \cup { Input("evaluateForms", "form", <<f>>, <<>>, 0, 0) : f \in OtherForms }
  \cup { Input("evaluateForms", "fn", <<TagFn(shape)>>, shape, 0, 0) : shape \in FnShapes }
  \cup { Input("evaluateForms", "defmacro", <<TagMacro(shape)>>, shape, 0, 0) : shape \in FnShapes }
  \cup { Input("evaluateForms", "call", <<Call(TagFn(shape), n, cljNumber(1))>>, shape, n, 0) :
           shape \in FnShapes, n \in 0..MaxArgs }
  \cup { Input("evaluateForms", "recur", <<Call(RecurFn(shape, k), n, cljBoolean(TRUE))>>, shape, n, k) :
           shape \in FnShapes, n \in 0..MaxArgs, k \in 0..MaxArgs }

InitEval ==
  /\ lazy = FALSE
  /\ envs = Prepared.envs
  /\ registry = Prepared.registry
  /\ currentNs = Prepared.currentNs
  /\ reads = <<>>
  /\ thrown = <<>>
  /\ phase = "ready"
  /\ steps = 0
  /\ op \in EvalInputs
  /\ outcome = Ok(Undefined)
  /\ arrays = <<>>

\* evaluate(expr, env) on the value drawn, in the env chosen.
ApplyEvaluate(env) ==
  /\ phase = "ready"
  /\ op.name = "evaluate"
  /\ Finish(evaluate(op.forms[1], env, Machine))
  /\ phase' = "done"
  /\ steps' = steps + 1
  /\ op' = [op EXCEPT !.env = env]

\* session.evaluateForms(forms) on the forms drawn.
ApplyEvaluateForms ==
  /\ phase = "ready"
  /\ op.name = "evaluateForms"
  /\ Finish(sessionEvaluateForms(op.forms, Machine))
  /\ phase' = "done"
  /\ steps' = steps + 1
  /\ UNCHANGED op

NextEval ==
  \/ \E env \in DOMAIN envs : ApplyEvaluate(env)
  \/ ApplyEvaluateForms

SpecEval == InitEval /\ [][NextEval]_vars


-----------------------------------------------------------------------------
\* The collection natives of core-env.ts at the level of the host arrays.
\* Here a list or vector value holds in value, and a map in entries, a
\* reference into arrays, the store of the host's arrays: two values can share
\* an array, and a write to an array shows in every value that holds it.

ListOf(ref) == [kind |-> "list", value |-> ref]
VectorOf(ref) == [kind |-> "vector", value |-> ref]
MapOf(ref) == [kind |-> "map", entries |-> ref]
isCollection(v) == isVector(v) \/ isMap(v) \/ isList(v)

\* A call's result: the store after it and what it returned or threw.
Same(h, v) == [h |-> h, r |-> Ok(v)]
Fail(h, msg) == [h |-> h, r |-> EvaluationError(msg)]
\* cljList(items), cljVector(items), cljMap(entries) on an array made by the call.
NewList(h, items) == [h |-> Append(h, items), r |-> Ok(ListOf(Len(h) + 1))]
NewVector(h, items) == [h |-> Append(h, items), r |-> Ok(VectorOf(Len(h) + 1))]
NewMap(h, entries) == [h |-> Append(h, entries), r |-> Ok(MapOf(Len(h) + 1))]

\* The value behind a reference, as the structure it stands for.
RECURSIVE Deref(_, _)
Deref(h, v) ==
  IF v.kind \in {"list", "vector"}
    THEN [kind |-> v.kind, value |-> [i \in DOMAIN h[v.value] |-> Deref(h, h[v.value][i])]]
  ELSE IF v.kind = "map"
    THEN cljMap([i \in DOMAIN h[v.entries] |->
                   <<Deref(h, h[v.entries][i][1]), Deref(h, h[v.entries][i][2])>>])
  ELSE v

\* entries.findIndex((entry) => isEqual(entry[0], key)), from 0; -1 if none.
FindIndex(h, entries, key) ==
  LET hits == {i \in DOMAIN entries : isEqual(Deref(h, entries[i][1]), Deref(h, key))}
  IN  IF hits = {} THEN -1 ELSE First(hits) - 1

\* array[i] = x of the host: inside the array it replaces, at the length it
\* appends, and below 0 it sets a property and leaves the elements alone.
SetIndex(array, i, x) ==
  IF i >= 0 /\ i < Len(array) THEN [array EXCEPT ![i + 1] = x]
  ELSE IF i = Len(array) THEN Append(array, x)
  ELSE array

\* array.splice(i, 1) of the host: a negative i counts from the end.
SpliceOne(array, i) ==
  LET start == IF i < 0 THEN (IF Len(array) + i < 0 THEN 0 ELSE Len(array) + i)
               ELSE IF i > Len(array) THEN Len(array) ELSE i
  IN  IF start >= Len(array) THEN array
      ELSE SubSeq(array, 1, start) \o SubSeq(array, start + 2, Len(array))

Reverse(s) == [i \in DOMAIN s |-> s[Len(s) + 1 - i]]

\* entries.map(([k, v]) => cljVector([k, v])): each pair gets an array of its
\* own; [h, items].
RECURSIVE PairVectors(_, _, _)
PairVectors(h, entries, acc) ==
  IF entries = <<>> THEN [h |-> h, items |-> acc]
  ELSE PairVectors(Append(h, <<Head(entries)[1], Head(entries)[2]>>), Tail(entries),
                   Append(acc, VectorOf(Len(h) + 1)))

\* toSeq: [h, items, ref]; a list's or vector's own array is handed out as it
\* is (ref), a map gets a new array of pair vectors (ref 0 here: callers that
\* keep the array put it in the store).
toSeq(h, collection) ==
  IF isMap(collection)
    THEN [h |-> PairVectors(h, h[collection.entries], <<>>).h,
          items |-> PairVectors(h, h[collection.entries], <<>>).items, ref |-> 0]
    ELSE [h |-> h, items |-> h[collection.value], ref |-> collection.value]

\* cljList(toSeq(coll)): the list holds the very array toSeq handed out.
ListOfSeq(s) ==
  IF s.ref # 0 THEN Same(s.h, ListOf(s.ref)) ELSE NewList(s.h, s.items)

\* The loop of conj, assoc and into over a map's entries: [r, entries].
PutEntry(h, newEntries, key, value) ==
  IF FindIndex(h, newEntries, key) = -1 THEN Append(newEntries, <<key, value>>)
  ELSE [newEntries EXCEPT ![FindIndex(h, newEntries, key) + 1] = <<key, value>>]

RECURSIVE ConjPairs(_, _, _)
ConjPairs(h, newEntries, args) ==
  IF args = <<>> THEN [r |-> Ok(cljNil), entries |-> newEntries]
  ELSE IF Head(args).kind # "vector" \/ Len(h[Head(args).value]) # 2
    THEN [r |-> EvaluationError(<<"conj on maps expects each argument to be a vector key-pair for maps">>),
          entries |-> newEntries]
  ELSE ConjPairs(h, PutEntry(h, newEntries, h[Head(args).value][1], h[Head(args).value][2]),
                 Tail(args))

conj(h, collection, args) ==
  IF args = <<>> THEN Same(h, collection)
  ELSE IF ~isCollection(collection) THEN Fail(h, <<"conj expects a collection">>)
  ELSE IF isList(collection) THEN NewList(h, Reverse(args) \o h[collection.value])
  ELSE IF isVector(collection) THEN NewVector(h, h[collection.value] \o args)
  ELSE IF ConjPairs(h, h[collection.entries], args).r.t # "ok"
    THEN [h |-> h, r |-> ConjPairs(h, h[collection.entries], args).r]
  ELSE NewMap(h, ConjPairs(h, h[collection.entries], args).entries)

cons(h, x, xs) ==
  IF ~isCollection(xs) THEN Fail(h, <<"cons expects a collection as second argument">>)
  ELSE IF isMap(xs) THEN Fail(h, <<"cons on maps is not supported, use vectors instead">>)
  ELSE IF isList(xs) THEN NewList(h, <<x>> \o h[xs.value])
  ELSE NewVector(h, <<x>> \o h[xs.value])

\* The loop of assoc over a vector's index/value pairs: [r, values].
RECURSIVE AssocValues(_, _)
AssocValues(newValues, args) ==
  IF args = <<>> THEN [r |-> Ok(cljNil), values |-> newValues]
  ELSE IF args[1].kind # "number"
    THEN [r |-> EvaluationError(<<"assoc on vectors expects each key argument to be a index (number)">>),
          values |-> newValues]
  ELSE IF args[1].value > Len(newValues)
    THEN [r |-> EvaluationError(<<"assoc index is out of bounds for vector">>), values |-> newValues]
  ELSE AssocValues(SetIndex(newValues, args[1].value, args[2]), SliceFrom(args, 2))

RECURSIVE AssocEntries(_, _, _)
AssocEntries(h, newEntries, args) ==
  IF args = <<>> THEN newEntries
  ELSE AssocEntries(h, PutEntry(h, newEntries, args[1], args[2]), SliceFrom(args, 2))

assoc(h, collection, args) ==
  IF isList(collection) THEN Fail(h, <<"assoc on lists is not supported, use vectors instead">>)
  ELSE IF ~isCollection(collection) THEN Fail(h, <<"assoc expects a collection">>)
  ELSE IF Len(args) < 2 THEN Fail(h, <<"assoc expects at least two arguments">>)
  ELSE IF Len(args) % 2 # 0 THEN Fail(h, <<"assoc expects an even number of binding arguments">>)
  ELSE IF isVector(collection)
    THEN IF AssocValues(h[collection.value], args).r.t # "ok"
           THEN [h |-> h, r |-> AssocValues(h[collection.value], args).r]
           ELSE NewVector(h, AssocValues(h[collection.value], args).values)
  ELSE NewMap(h, AssocEntries(h, h[collection.entries], args))

\* The loop of dissoc over a vector's indexes: [r, values].
RECURSIVE DissocValues(_, _)
DissocValues(newValues, args) ==
  IF args = <<>> THEN [r |-> Ok(cljNil), values |-> newValues]
  ELSE IF args[1].kind # "number"
    THEN [r |-> EvaluationError(<<"dissoc on vectors expects each key argument to be a index (number)">>),
          values |-> newValues]
  ELSE IF args[1].value >= Len(newValues)
    THEN [r |-> EvaluationError(<<"dissoc index is out of bounds for vector">>), values |-> newValues]
  ELSE DissocValues(SpliceOne(newValues, args[1].value), Tail(args))

\* The loop of dissoc over a map's keys: [found, entries]; a key that is not
\* there ends the loop.
RECURSIVE DissocEntries(_, _, _)
DissocEntries(h, newEntries, args) ==
  IF args = <<>> THEN [found |-> TRUE, entries |-> newEntries]
  ELSE IF FindIndex(h, newEntries, Head(args)) = -1 THEN [found |-> FALSE, entries |-> newEntries]
  ELSE DissocEntries(h, SpliceOne(newEntries, FindIndex(h, newEntries, Head(args))), Tail(args))

\* dissoc as it would be if it worked on the vector's own array, not a copy.
dissocInPlace(h, collection, args) ==
  IF isVector(collection) /\ Len(h[collection.value]) > 0
       /\ DissocValues(h[collection.value], args).r.t = "ok"
    THEN Same([h EXCEPT ![collection.value] = DissocValues(h[collection.value], args).values],
              collection)
    ELSE Fail(h, <<"dissoc">>)

dissoc(h, collection, args) ==
  IF isList(collection) THEN Fail(h, <<"dissoc on lists is not supported, use vectors instead">>)
  ELSE IF ~isCollection(collection) THEN Fail(h, <<"dissoc expects a collection">>)
  ELSE IF isVector(collection)
    THEN IF Len(h[collection.value]) = 0 THEN Same(h, collection)
         ELSE IF DissocValues(h[collection.value], args).r.t # "ok"
           THEN [h |-> h, r |-> DissocValues(h[collection.value], args).r]
         ELSE NewVector(h, DissocValues(h[collection.value], args).values)
  ELSE IF Len(h[collection.entries]) = 0 THEN Same(h, collection)
  ELSE IF ~DissocEntries(h, h[collection.entries], args).found THEN Same(h, collection)
  ELSE NewMap(h, DissocEntries(h, h[collection.entries], args).entries)

rest(h, collection) ==
  IF ~isCollection(collection) THEN Fail(h, <<"rest expects a collection">>)
  ELSE IF isList(collection)
    THEN IF Len(h[collection.value]) = 0 THEN Same(h, collection)
         ELSE NewList(h, SliceFrom(h[collection.value], 1))
  ELSE IF isVector(collection) THEN NewVector(h, SliceFrom(h[collection.value], 1))
  ELSE IF Len(h[collection.entries]) = 0 THEN Same(h, collection)
  ELSE NewMap(h, SliceFrom(h[collection.entries], 1))

\* The loop of into: acc is a new value at every step; only the last one
\* stays in the store here, the ones between are dropped by the host.
\* [r, kind, items]: items are acc's elements, or its entries.
RECURSIVE IntoItems(_, _, _, _)
IntoItems(h, kind, acc, items) ==
  IF items = <<>> THEN [r |-> Ok(cljNil), items |-> acc]
  ELSE IF kind = "list" THEN IntoItems(h, kind, <<Head(items)>> \o acc, Tail(items))
  ELSE IF kind = "vector" THEN IntoItems(h, kind, Append(acc, Head(items)), Tail(items))
  ELSE IF Head(items).kind # "vector" \/ Len(h[Head(items).value]) # 2
    THEN [r |-> EvaluationError(<<"into on a map expects each source element to be a [k v] vector">>),
          items |-> acc]
  ELSE IntoItems(h, kind, PutEntry(h, acc, h[Head(items).value][1], h[Head(items).value][2]),
                 Tail(items))

IntoFrom(s, to) ==
  IF s.items = <<>> THEN Same(s.h, to)
  ELSE IF IntoItems(s.h, to.kind, IF isMap(to) THEN s.h[to.entries] ELSE s.h[to.value], s.items).r.t # "ok"
    THEN [h |-> s.h,
          r |-> IntoItems(s.h, to.kind, IF isMap(to) THEN s.h[to.entries] ELSE s.h[to.value], s.items).r]
  ELSE IF isList(to) THEN NewList(s.h, IntoItems(s.h, to.kind, s.h[to.value], s.items).items)
  ELSE IF isVector(to) THEN NewVector(s.h, IntoItems(s.h, to.kind, s.h[to.value], s.items).items)
  ELSE NewMap(s.h, IntoItems(s.h, to.kind, s.h[to.entries], s.items).items)

into(h, to, from) ==
  IF ~isCollection(to) THEN Fail(h, <<"into expects a collection as first argument">>)
  ELSE IF ~isCollection(from) THEN Fail(h, <<"into expects a collection as second argument">>)
  ELSE IntoFrom(toSeq(h, from), to)

\* The loop of concat: [h, r, items].
RECURSIVE ConcatInto(_, _, _)
ConcatInto(h, colls, result) ==
  IF colls = <<>> THEN [h |-> h, r |-> Ok(cljNil), items |-> result]
  ELSE IF ~isCollection(Head(colls))
    THEN [h |-> h, r |-> EvaluationError(<<"concat expects collections">>), items |-> result]
  ELSE ConcatInto(toSeq(h, Head(colls)).h, Tail(colls), result \o toSeq(h, Head(colls)).items)

concat(h, colls) ==
  IF ConcatInto(h, colls, <<>>).r.t # "ok"
    THEN [h |-> ConcatInto(h, colls, <<>>).h, r |-> ConcatInto(h, colls, <<>>).r]
    ELSE NewList(ConcatInto(h, colls, <<>>).h, ConcatInto(h, colls, <<>>).items)

take(h, n, coll) ==
  IF n.kind # "number" THEN Fail(h, <<"take expects a number as first argument">>)
  ELSE IF ~isCollection(coll) THEN Fail(h, <<"take expects a collection as second argument">>)
  ELSE IF n.value <= 0 THEN NewList(h, <<>>)
  ELSE NewList(toSeq(h, coll).h, SliceTo(toSeq(h, coll).items, n.value))

drop(h, n, coll) ==
  IF n.kind # "number" THEN Fail(h, <<"drop expects a number as first argument">>)
  ELSE IF ~isCollection(coll) THEN Fail(h, <<"drop expects a collection as second argument">>)
  ELSE IF n.value <= 0 THEN ListOfSeq(toSeq(h, coll))
  ELSE NewList(toSeq(h, coll).h, SliceFrom(toSeq(h, coll).items, n.value))

\* applyFunction(fn, [item]) for the natives given to map and filter, list
\* and not: [h, r].
ApplyUnary(h, fn, item) ==
  IF fn.name = <<"list">> THEN NewList(h, <<item>>) ELSE Same(h, cljBoolean(isFalsy(item)))

\* items.map(item => applyFunction(fn, [item])): [h, items].
RECURSIVE MapItems(_, _, _, _)
MapItems(h, fn, items, acc) ==
  IF items = <<>> THEN [h |-> h, items |-> acc]
  ELSE MapItems(ApplyUnary(h, fn, Head(items)).h, fn, Tail(items),
                Append(acc, ApplyUnary(h, fn, Head(items)).r.v))

\* items.filter(item => isTruthy(applyFunction(fn, [item])))
RECURSIVE FilterItems(_, _, _, _)
FilterItems(h, fn, items, acc) ==
  IF items = <<>> THEN [h |-> h, items |-> acc]
  ELSE FilterItems(ApplyUnary(h, fn, Head(items)).h, fn, Tail(items),
                   IF isFalsy(ApplyUnary(h, fn, Head(items)).r.v) THEN acc
                   ELSE Append(acc, Head(items)))

Wrap(collection, x) ==
  IF isVector(collection) THEN NewVector(x.h, x.items) ELSE NewList(x.h, x.items)

map(h, fn, collection) ==
  IF ~isAFunction(fn) THEN Fail(h, <<"map expects a function as first argument">>)
  ELSE IF ~isCollection(collection) THEN Fail(h, <<"map expects a collection">>)
  ELSE Wrap(collection, MapItems(toSeq(h, collection).h, fn, toSeq(h, collection).items, <<>>))

filter(h, fn, collection) ==
  IF ~isAFunction(fn) THEN Fail(h, <<"filter expects a function as first argument">>)
  ELSE IF ~isCollection(collection) THEN Fail(h, <<"filter expects a collection">>)
  ELSE Wrap(collection, FilterItems(toSeq(h, collection).h, fn, toSeq(h, collection).items, <<>>))

seq(h, collection) ==
  IF collection.kind = "nil" THEN Same(h, cljNil)
  ELSE IF ~isCollection(collection) THEN Fail(h, <<"seq expects a collection or nil">>)
  ELSE IF toSeq(h, collection).items = <<>> THEN Same(h, cljNil)
  ELSE ListOfSeq(toSeq(h, collection))

keys(h, m) ==
  IF ~isMap(m) THEN Fail(h, <<"keys expects a map">>)
  ELSE NewVector(h, [i \in DOMAIN h[m.entries] |-> h[m.entries][i][1]])

vals(h, m) ==
  IF ~isMap(m) THEN Fail(h, <<"vals expects a map">>)
  ELSE NewVector(h, [i \in DOMAIN h[m.entries] |-> h[m.entries][i][2]])

hashMap(h, args) ==
  IF args = <<>> THEN NewMap(h, <<>>)
  ELSE IF Len(args) % 2 # 0
    THEN Fail(h, <<"hash-map expects an even number of arguments, got ", NumText(Len(args))>>)
  ELSE NewMap(h, [i \in 1..(Len(args) \div 2) |-> <<args[2 * i - 1], args[2 * i]>>])

Min(a, b) == IF a < b THEN a ELSE b

ZipSeqs(k, v) ==
  NewMap(v.h, [i \in 1..Min(Len(k.items), Len(v.items)) |-> <<k.items[i], v.items[i]>>])

zipmap(h, ks, vs) ==
  IF ~isCollection(ks) THEN Fail(h, <<"zipmap expects a collection as first argument">>)
  ELSE IF ~isCollection(vs) THEN Fail(h, <<"zipmap expects a collection as second argument">>)
  ELSE ZipSeqs(toSeq(h, ks), toSeq(toSeq(h, ks).h, vs))

-----------------------------------------------------------------------------
\* Calls of the collection natives on values bound in user: each step is
\* (def r<n> (native arg ...)) with the arguments taken from the values bound
\* so far and from a few scalars.

MaxCalls == 2
MaxIndex == 3

\* user after (def v [0 1]) (def l '(0 :k)) (def m {:k 0}) (def e []): every
\* literal has an array of its own.
LiteralArrays ==
  << <<cljNumber(0), cljNumber(1)>>, <<cljNumber(0), Kw(":k")>>,
     << <<Kw(":k"), cljNumber(0)>> >>, <<>> >>
LiteralBindings ==
  MapSet(MapSet(MapSet(MapSet(EmptyMap, <<"v">>, VectorOf(1)), <<"l">>, ListOf(2)),
                <<"m">>, MapOf(3)), <<"e">>, VectorOf(4))

InitColl ==
  /\ lazy = FALSE
  /\ envs = [Fresh(FALSE).envs EXCEPT ![Fresh(FALSE).registry[User]].bindings = LiteralBindings]
  /\ registry = Fresh(FALSE).registry
  /\ currentNs = User
  /\ reads = <<>>
  /\ thrown = <<>>
  /\ phase = "ready"
  /\ steps = 0
  /\ op = Operation("none", "", NoName, <<>>)
  /\ outcome = Ok(Undefined)
  /\ arrays = LiteralArrays

Bound == {envs[registry[User]].bindings[n] : n \in DOMAIN envs[registry[User]].bindings}
Scalars == {cljNumber(0), Kw(":k")}
Indexes == {cljNumber(i) : i \in -1..MaxIndex}
Counts == {cljNumber(i) : i \in -1..1}
UnaryNatives == {cljNativeFunction(<<"list">>), cljNativeFunction(<<"not">>)}

ResultName(n) == <<"r", <<"0", "1", "2", "3", "4", "5", "6", "7", "8", "9">>[n + 1]>>

\* The elements of a list or vector argument at the call.
SizeOf(v) == IF isList(v) \/ isVector(v) THEN Len(arrays[v.value]) ELSE 0

\* (def r<n> (name args...)): x is what the native did; of.k is the length
\* the collection argument had when the call was made.
CallNative(name, args, collection, x) ==
  /\ phase = "ready"
  /\ steps < MaxCalls
  /\ arrays' = x.h
  /\ outcome' = x.r
  /\ envs' = IF x.r.t = "ok"
               THEN define(ResultName(steps + 1), x.r.v, registry[User], Machine).envs
               ELSE envs
  /\ op' = [Operation(name, "core", NoName, args) EXCEPT !.of.k = SizeOf(collection)]
  /\ steps' = steps + 1
  /\ UNCHANGED <<registry, currentNs, lazy, reads, thrown, phase>>

Conj ==
  \E c \in Bound, xs \in {<<>>} \cup {<<x>> : x \in Scalars \cup Bound}
                            \cup {<<x, y>> : x \in Scalars, y \in Bound} :
    CallNative("conj", <<c>> \o xs, c, conj(arrays, c, xs))
Cons == \E x \in Scalars \cup Bound, xs \in Bound : CallNative("cons", <<x, xs>>, xs, cons(arrays, x, xs))
Assoc ==
  \E c \in Bound, k \in Indexes \cup {Kw(":k")}, x \in Scalars :
    CallNative("assoc", <<c, k, x>>, c, assoc(arrays, c, <<k, x>>))
Dissoc ==
  \E c \in Bound, ks \in {<<k>> : k \in Indexes \cup {Kw(":k")}} \cup {<<cljNumber(0), cljNumber(0)>>, <<Kw(":k"), cljNumber(0)>>} :
    CallNative("dissoc", <<c>> \o ks, c, dissoc(arrays, c, ks))
Rest == \E c \in Bound : CallNative("rest", <<c>>, c, rest(arrays, c))
Into == \E to \in Bound, from \in Bound : CallNative("into", <<to, from>>, to, into(arrays, to, from))
Concat ==
  \E colls \in {<<>>} \cup {<<c>> : c \in Bound} \cup {<<c, d>> : c \in Bound, d \in Bound} :
    CallNative("concat", colls, cljNil, concat(arrays, colls))
Take == \E n \in Counts, c \in Bound : CallNative("take", <<n, c>>, c, take(arrays, n, c))
Drop == \E n \in Counts, c \in Bound : CallNative("drop", <<n, c>>, c, drop(arrays, n, c))
MapOver == \E fn \in UnaryNatives, c \in Bound : CallNative("map", <<fn, c>>, c, map(arrays, fn, c))
Filter == \E fn \in UnaryNatives, c \in Bound : CallNative("filter", <<fn, c>>, c, filter(arrays, fn, c))
SeqOf == \E c \in Bound : CallNative("seq", <<c>>, c, seq(arrays, c))
Keys == \E c \in Bound : CallNative("keys", <<c>>, c, keys(arrays, c))
Vals == \E c \in Bound : CallNative("vals", <<c>>, c, vals(arrays, c))
HashMap ==
  \E args \in {<<>>} \cup {<<k>> : k \in Scalars} \cup {<<k, x>> : k \in Scalars, x \in Scalars}
               \cup {<<k, cljNumber(0), l, cljNumber(0)>> : k \in Scalars, l \in Scalars} :
    CallNative("hash-map", args, cljNil, hashMap(arrays, args))
Zipmap == \E ks \in Bound, vs \in Bound : CallNative("zipmap", <<ks, vs>>, ks, zipmap(arrays, ks, vs))

NextColl ==
  \/ Conj \/ Cons \/ Assoc \/ Dissoc \/ Rest \/ Into \/ Concat \/ Take \/ Drop
  \/ MapOver \/ Filter \/ SeqOf \/ Keys \/ Vals \/ Zipmap \/ HashMap

SpecColl == InitColl /\ [][NextColl]_vars
-----------------------------------------------------------------------------
\* Properties of the session (specification Spec).

StrayRecur == EvaluationError(<<"recur called outside of loop or fn">>)

\* C1: a RecurSignal never reaches the caller of a session entry point:
\* evaluate, evaluateForms, loadFile and the entry loading of createSession
\* return a value or throw an error, and a recur evaluated outside every loop
\* and fn body surfaces as EvaluationError("recur called outside of loop or fn").
C1_RecurSignalNeverEscapes ==
  op.name \in {"createSession", "loadFile", "evaluate", "evaluateForms"} =>
    /\ outcome.cls # "RecurSignal"
    /\ (op.src = "recur" => outcome = StrayRecur)

\* C2: no error is swallowed: a tokenizer, parser or evaluation error thrown
\* while a namespace file is loaded (by loadFile directly, or because a require
\* named a namespace not yet loaded) is what the session operation that caused
\* the load throws, unchanged.
C2_LoadErrorsPropagate ==
  \A i \in DOMAIN thrown :
    thrown[i].cls \in {"TokenizerError", "ParserError", "EvaluationError"} =>
      outcome = thrown[i]

\* C8: after createSession and any sequence of operations the registry holds
\* clojure.core, which has no outer env, and user; every registered namespace
\* other than clojure.core is an env whose namespace is its registry key and
\* whose outer env is the clojure.core env.
C8_RegistryShape ==
  /\ ClojureCore \in DOMAIN registry
  /\ User \in DOMAIN registry
  /\ envs[registry[ClojureCore]].outer = 0
  /\ envs[registry[ClojureCore]].namespace = ClojureCore
  /\ \A n \in DOMAIN registry \ {ClojureCore} :
       /\ envs[registry[n]].namespace = n
       /\ envs[registry[n]].outer = registry[ClojureCore]

\* Namespaces made by a file's ns form, by the nsName argument and by setNs
\* are all registered.
C8_Witness ==
  /\ steps = MaxOps
  /\ MyUtils \in DOMAIN registry
  /\ \E n \in {Hinted, MyApp} : n \in DOMAIN registry

\* The name of the first top-level (ns NAME ...) form among forms, or NoName.
RECURSIVE FirstNsName(_)
FirstNsName(forms) ==
  IF forms = <<>> THEN NoName
  ELSE IF /\ isList(Head(forms))
          /\ Len(Head(forms).value) >= 2
          /\ Head(forms).value[1] = Sym("ns")
          /\ isSymbol(Head(forms).value[2])
    THEN Head(forms).value[2].name
  ELSE FirstNsName(Tail(forms))

ExpectedTarget(src, hint) ==
  IF FirstNsName(Source(src).forms) # NoName THEN FirstNsName(Source(src).forms)
  ELSE IF hint # NoName THEN hint
  ELSE User

\* The positions of the top-level (def name expr) forms.
TopLevelDefs(forms) ==
  {i \in DOMAIN forms : isList(forms[i]) /\ Len(forms[i].value) = 3 /\ forms[i].value[1] = Sym("def")}

\* The position of the last top-level def of the name forms[i] defines.
IsLastDef(forms, i) ==
  \A j \in TopLevelDefs(forms) : forms[j].value[2] = forms[i].value[2] => j <= i

\* What name is bound to in env e of heap es: <<value>>, or <<>> if unbound.
Binding(es, e, name) ==
  IF name \in DOMAIN es[e].bindings THEN <<es[e].bindings[name]>> ELSE <<>>

C9Step ==
  (op'.name = "loadFile" /\ steps' = steps + 1) =>
    LET T == ExpectedTarget(op'.src, op'.hint)
        forms == Source(op'.src).forms
    IN  /\ outcome'.t = "ok" =>
             /\ T \in DOMAIN registry'
             /\ \A i \in TopLevelDefs(forms) :
                  /\ Binding(envs', registry'[T], forms[i].value[2].name) # <<>>
                  /\ (IsLastDef(forms, i) /\ forms[i].value[3].kind = "number") =>
                        Binding(envs', registry'[T], forms[i].value[2].name) = <<forms[i].value[3]>>
        /\ \A n \in DOMAIN registry' \ {T} : \A i \in TopLevelDefs(forms) :
             IF n \in DOMAIN registry
               THEN Binding(envs', registry'[n], forms[i].value[2].name)
                      = Binding(envs, registry[n], forms[i].value[2].name)
               ELSE Binding(envs', registry'[n], forms[i].value[2].name) = <<>>

RECURSIVE BoundOnChain(_, _)
BoundOnChain(name, env) ==
  env # 0 /\ (name \in DOMAIN envs[env].bindings \/ BoundOnChain(name, envs[env].outer))

\* The binding of name nearest to env on its outer chain.
RECURSIVE ValueOnChain(_, _)
ValueOnChain(name, env) ==
  IF name \in DOMAIN envs[env].bindings THEN envs[env].bindings[name]
  ELSE ValueOnChain(name, envs[env].outer)

\* C10: aliases are live: once a namespace has required my.utils as u,
\* evaluating u/name in it yields the binding name has in my.utils when the
\* evaluation happens, whether it was defined before or after the require.
\* (Every require of the programs that gives the alias u names my.utils.)
C10_AliasesLive ==
  ( /\ op.name = "evaluate" /\ op.src \in {"u-helper", "u-added"}
    /\ <<"u">> \in DOMAIN envs[registry[currentNs]].aliases
    /\ BoundOnChain(<<Source(op.src).forms[1].name[3]>>, registry[MyUtils]) ) =>
      outcome = Ok(ValueOnChain(<<Source(op.src).forms[1].name[3]>>, registry[MyUtils]))

\* user required my.utils while the session was made; my.utils then got
\* added, and u/added sees it.
C10_Witness ==
  /\ steps = 2
  /\ op.name = "evaluate" /\ op.src = "u-added"
  /\ outcome = Ok(cljNumber(1))

-----------------------------------------------------------------------------
\* Properties of the evaluator (specification SpecEval).

\* The arities of the shape that are not variadic, and those that are.
Fixed(shape) == {i \in DOMAIN shape : ~shape[i].rest}
Variadic(shape) == {i \in DOMAIN shape : shape[i].rest}

\* The arity a call with n arguments is said to select: the fixed one with n
\* parameters, else the variadic one with at most n; 0 if there is none.
Selects(shape, n) ==
  IF \E i \in Fixed(shape) : shape[i].n = n
    THEN CHOOSE i \in Fixed(shape) : shape[i].n = n
  ELSE IF \E i \in Variadic(shape) : n >= shape[i].n
    THEN CHOOSE i \in Variadic(shape) : n >= shape[i].n
  ELSE 0

\* At most one variadic arity, and fixed arities of pairwise distinct counts.
ShapeWellFormed(shape) ==
  /\ Cardinality(Variadic(shape)) <= 1
  /\ \A i, j \in Fixed(shape) : i # j => shape[i].n # shape[j].n

AritiesWellFormed(arities) ==
  /\ Cardinality({i \in DOMAIN arities : arities[i].restParam.kind # "null"}) <= 1
  /\ \A i, j \in DOMAIN arities :
       (i # j /\ arities[i].restParam.kind = "null" /\ arities[j].restParam.kind = "null")
         => Len(arities[i].params) # Len(arities[j].params)

\* C3: when the body of a function recurs, applyFunction takes the new
\* arguments and resolves the arity again for their number, so a recur whose
\* argument count matches another arity goes on in that arity: the call
\* answers with the tag of the arity selected for the k recur arguments.
C3_RecurResolvesArityAgain ==
  ( /\ phase = "done" /\ op.src = "recur"
    /\ ShapeWellFormed(op.of.shape)
    /\ Selects(op.of.shape, op.of.n) # 0
    /\ op.of.shape[Selects(op.of.shape, op.of.n)].n > 0
    /\ Selects(op.of.shape, op.of.k) # 0 ) =>
      outcome = Ok(Tag(Selects(op.of.shape, op.of.k)))

\* C4: evaluate(v, env) returns v as it is, in any env, for every number,
\* string, boolean, nil, keyword, function, native function and macro; so a
\* form holding a native function, as built by list and given to eval,
\* evaluates without error.
C4_SelfEvaluating ==
  /\ (phase = "done" /\ op.name = "evaluate") => outcome = Ok(op.forms[1])
  /\ (phase = "done" /\ op.forms = <<EvalOfNative>>) => outcome.t = "ok"

NotFound(name) == EvaluationError(<<"Symbol ">> \o name \o <<" not found">>)

\* C5: evaluating a symbol with no binding on the env's outer chain, or an
\* alias/name whose name is unbound in the aliased namespace, throws an
\* EvaluationError with the message "Symbol <name> not found"; and whatever
\* evaluate throws is an EvaluationError.
C5_UnboundSymbol ==
  (phase = "done" /\ op.name = "evaluateForms") =>
    /\ ( /\ op.src = "symbol"
         /\ IndexOf(op.forms[1].name, "/") = -1
         /\ ~BoundOnChain(op.forms[1].name, registry[currentNs]) ) =>
           outcome = NotFound(op.forms[1].name)
    /\ ( /\ op.src = "symbol"
         /\ IndexOf(op.forms[1].name, "/") = 1
         /\ <<op.forms[1].name[1]>> \in DOMAIN envs[registry[currentNs]].aliases
         /\ ~BoundOnChain(<<op.forms[1].name[3]>>,
                          envs[registry[currentNs]].aliases[<<op.forms[1].name[1]>>]) ) =>
           outcome \in {NotFound(<<op.forms[1].name[3]>>), NotFound(op.forms[1].name)}
    /\ outcome.t = "throw" => outcome.cls = "EvaluationError"

\* C6: a call with n arguments runs the fixed arity with n parameters if
\* there is one, even when the variadic arity also accepts n; otherwise the
\* variadic arity if n is at least its fixed parameter count; otherwise it
\* throws EvaluationError "No matching arity for n arguments", which lists the
\* arities there are.
C6_ArityResolution ==
  (phase = "done" /\ op.src = "call" /\ Cardinality(Variadic(op.of.shape)) <= 1) =>
    LET shape == op.of.shape
        n == op.of.n
        exact == {i \in Fixed(shape) : shape[i].n = n}
        variadic == {i \in Variadic(shape) : n >= shape[i].n}
    IN  IF exact # {} THEN \E i \in exact : outcome = Ok(Tag(i))
        ELSE IF variadic # {} THEN \E i \in variadic : outcome = Ok(Tag(i))
        ELSE /\ outcome.cls = "EvaluationError"
             /\ SubSeq(outcome.msg, 1, 3)
                  = <<"No matching arity for ", NumText(n), " arguments. Available arities: ">>
             /\ \A i \in DOMAIN shape : \E j \in 4..Len(outcome.msg) :
                  /\ outcome.msg[j] = NumText(shape[i].n)
                  /\ shape[i].rest => (j < Len(outcome.msg) /\ outcome.msg[j + 1] = "+")

\* One argument, a variadic arity that accepts it listed before the fixed
\* arity of one parameter: the fixed arity ran.
C6_Witness ==
  /\ phase = "done" /\ op.src = "call"
  /\ op.of.shape = <<[n |-> 1, rest |-> TRUE], [n |-> 1, rest |-> FALSE]>>
  /\ op.of.n = 1
  /\ outcome = Ok(Tag(2))

\* C7: every function or macro made by fn or defmacro has at most one
\* variadic arity and fixed arities of pairwise distinct parameter counts; a
\* definition that would break either is rejected with an EvaluationError and
\* makes no value.
C7_AritiesWellFormed ==
  /\ \A e \in DOMAIN envs : \A b \in DOMAIN envs[e].bindings :
       envs[e].bindings[b].kind \in {"function", "macro"} =>
         AritiesWellFormed(envs[e].bindings[b].arities)
  /\ (outcome.t = "ok" /\ outcome.v.kind \in {"function", "macro"}) =>
       AritiesWellFormed(outcome.v.arities)
  /\ (phase = "done" /\ op.src \in {"fn", "defmacro"} /\ ~ShapeWellFormed(op.of.shape)) =>
       /\ outcome.cls = "EvaluationError"
       /\ <<"mac">> \notin DOMAIN envs[registry[ClojureCore]].bindings


-----------------------------------------------------------------------------
\* Properties of lazy namespace resolution (specification Spec).

\* C11: over any sequence of require calls and ns :require clauses of a
\* session, readFile is called at most once for a namespace name, and it is
\* never called for a namespace the registry already holds.
C11_ReadOncePerNamespace ==
  /\ \A i, j \in DOMAIN reads : reads[i].ns = reads[j].ns => i = j
  /\ \A i \in DOMAIN reads : ~reads[i].loaded

-----------------------------------------------------------------------------
\* Properties of def, closures and macros (specification SpecEval).

\* The namespace root nearest to env in the session evaluation starts from.
HomeOf(env) == IF HasNamespace(Prepared.envs[env]) THEN env ELSE 0

\* C12: (def d expr) evaluated at the top level or inside let, loop or a
\* function body binds d in the nearest namespace root above the env the def
\* form was evaluated in (the root of the env evaluate was given, or of the env
\* the called closure captured), leaves every other env of the session as it
\* was, binds d to that value in no env made during the evaluation, and
\* returns nil.
C12_DefBindsNamespaceRoot ==
  (phase = "done" /\ op.src = "def") =>
    LET N == HomeOf(IF op.of.k # 0 THEN op.of.k ELSE op.env)
    IN  /\ outcome = Ok(cljNil)
        /\ N # 0
        /\ envs[N] = [Prepared.envs[N] EXCEPT
                        !.bindings = MapSet(@, <<"d">>, cljNumber(op.of.n))]
        /\ \A e \in DOMAIN envs \ {N} :
             IF e \in DOMAIN Prepared.envs THEN envs[e] = Prepared.envs[e]
             ELSE <<"d">> \in DOMAIN envs[e].bindings
                    => envs[e].bindings[<<"d">>] # cljNumber(op.of.n)

\* A def below a lexical env that binds the same name, evaluated in user.
C12_Witness ==
  /\ phase = "done" /\ op.src = "def" /\ op.env = Prepared.registry[User]
  /\ \E e \in DOMAIN envs \ DOMAIN Prepared.envs : <<"d">> \in DOMAIN envs[e].bindings
  /\ <<"d">> \in DOMAIN envs[Prepared.registry[User]].bindings

\* C13: a closure called after the namespace binding of its free variable x
\* was made or remade by def sees the value x has at the call on the env chain
\* it captured (a lexical binding it captured first, else the namespace's
\* current one); a binding of x in the caller's lexical env is never seen, so
\* with x unbound on the captured chain the call throws "Symbol x not found"
\* even under (let [x 9] ...).
C13_ClosureSeesCallTimeBindings ==
  (phase = "done" /\ op.src = "closure") =>
    IF op.of.n = 0
      THEN outcome.t = "throw" /\ outcome.msg = <<"Symbol ", "x", " not found">>
      ELSE outcome = Ok(cljNumber(op.of.n))

\* x was defined again after the closure was made and the call, made under a
\* let that binds x, returned the new namespace value.
C13_Witness ==
  /\ phase = "done" /\ op.src = "closure" /\ op.of.k = 1
  /\ Len(op.forms) = 4
  /\ outcome = Ok(cljNumber(2))

\* The call (m arg?) of a macro program: its last form, or the body of the let
\* its last form is.
MacroCall(forms) ==
  IF forms[Len(forms)].value[1] = Sym("let")
    THEN forms[Len(forms)].value[3] ELSE forms[Len(forms)]

SideBound == \E e \in DOMAIN envs : <<"side">> \in DOMAIN envs[e].bindings

\* C14: when the head of a list evaluates to a macro, the macro's parameter is
\* bound, in an env made under the env the macro captured, to the argument
\* form as written; the body is evaluated there (a free x of the body is the
\* namespace's x, not the caller's let binding); the form the body returns is
\* evaluated in the caller's env (an x it names is the caller's let binding);
\* and the argument form (def side 1) is evaluated only when the expansion
\* holds it.
C14_MacroExpandThenEval ==
  (phase = "done" /\ op.src = "macro") =>
    /\ outcome = Ok(IF op.of.n = 0 THEN SideDef ELSE cljNumber(op.of.n))
    /\ SideBound <=> op.of.k = 1
    /\ Len(MacroCall(op.forms).value) = 2 =>
         \E e \in DOMAIN envs \ DOMAIN Prepared.envs :
           /\ envs[e].outer = Prepared.registry[User]
           /\ envs[e].bindings = MapSet(EmptyMap, <<"a">>, MacroCall(op.forms).value[2])

\* A macro that drops its argument form was called with (def side 1): side
\* was not defined.
C14_Witness ==
  /\ phase = "done" /\ op.src = "macro" /\ op.of.n = 42
  /\ outcome = Ok(cljNumber(42)) /\ ~SideBound

\* The form given to macroexpand-1 by the last form of an expand program.
ExpandedForm == op.forms[Len(op.forms)].value[2].value[2]

\* What the head of form evaluates to in the current namespace.
HeadValue(form) == evaluate(form.value[1], registry[currentNs], Machine).r

\* Evaluating form in the current namespace would apply a macro to it.
HeadIsMacro(form) ==
  /\ isList(form) /\ Len(form.value) > 0
  /\ isSymbol(form.value[1]) /\ ~isSpecialForm(form.value[1])
  /\ HeadValue(form).t = "ok"
  /\ isMacro(HeadValue(form).v)

\* C15: (macroexpand-1 form) returns the one-step expansion of form exactly
\* when form is a non-empty list whose head symbol names a macro in the
\* current namespace env (evaluating form there would apply that macro), and
\* returns form itself in every other case.
C15_MacroexpandOne ==
  (phase = "done" /\ op.src = "expand") =>
    outcome = IF HeadIsMacro(ExpandedForm)
                THEN applyMacro(HeadValue(ExpandedForm).v,
                                SliceFrom(ExpandedForm.value, 1), Machine).r
                ELSE Ok(ExpandedForm)

-----------------------------------------------------------------------------
\* Properties of quasiquote (specification SpecEval).

\* The values x and xs have in a quasiquote program.
ValueOfX == cljNumber(7)
ValueOfXs(k) ==
  CASE k = 1 -> cljVector(<<cljNumber(1), cljNumber(2)>>)
    [] k = 2 -> cljList(<<cljNumber(1), cljNumber(2)>>)
    [] OTHER -> cljNumber(5)
ValueOfSymbol(s, k) == IF s = Sym("x") THEN ValueOfX ELSE ValueOfXs(k)

IsUnquoteForm(t) == t.kind = "list" /\ Len(t.value) = 2 /\ t.value[1] = Sym("unquote")
IsSpliceForm(t) == t.kind = "list" /\ Len(t.value) = 2 /\ t.value[1] = Sym("unquote-splicing")

\* The template with every ~s replaced by the value of s and every ~@s element
\* of a list or vector replaced by the elements of the value of s.
RECURSIVE Filled(_, _), FilledElements(_, _)
Filled(t, k) ==
  IF IsUnquoteForm(t) THEN ValueOfSymbol(t.value[2], k)
  ELSE IF t.kind \in {"list", "vector"}
    THEN [kind |-> t.kind, value |-> FilledElements(t.value, k)]
  ELSE IF t.kind = "map"
    THEN cljMap([i \in DOMAIN t.entries |->
                   <<Filled(t.entries[i][1], k), Filled(t.entries[i][2], k)>>])
  ELSE t
FilledElements(es, k) ==
  IF es = <<>> THEN <<>>
  ELSE (IF IsSpliceForm(Head(es)) THEN ValueOfSymbol(Head(es).value[2], k).value
        ELSE <<Filled(Head(es), k)>>) \o FilledElements(Tail(es), k)

\* The template has a ~@ element in some list or vector.
RECURSIVE HasSplice(_)
HasSplice(t) ==
  IF IsUnquoteForm(t) THEN FALSE
  ELSE IF t.kind \in {"list", "vector"}
    THEN \E i \in DOMAIN t.value : IsSpliceForm(t.value[i]) \/ HasSplice(t.value[i])
  ELSE IF t.kind = "map"
    THEN \E i \in DOMAIN t.entries : HasSplice(t.entries[i][1]) \/ HasSplice(t.entries[i][2])
  ELSE FALSE

\* The template has an unquote or a spliced element somewhere.
RECURSIVE HasUnquote(_)
HasUnquote(t) ==
  IF IsUnquoteForm(t) THEN TRUE
  ELSE IF t.kind \in {"list", "vector"}
    THEN \E i \in DOMAIN t.value : IsSpliceForm(t.value[i]) \/ HasUnquote(t.value[i])
  ELSE IF t.kind = "map"
    THEN \E i \in DOMAIN t.entries : HasUnquote(t.entries[i][1]) \/ HasUnquote(t.entries[i][2])
  ELSE FALSE

QuasiTemplate == op.forms[1].value[3].value[2]

-----------------------------------------------------------------------------
\* Properties of equality (specification SpecEval).

\* The value (def v expr) bound in user.
BoundV == envs[registry[User]].bindings[<<"v">>]

\* C17: equality is reflexive for every variant, function, native function
\* and macro values included: isEqual(v, v) is true and (= v v) returns true.
C17_EqualityReflexive ==
  (phase = "done" /\ op.src = "reflexive") =>
    /\ outcome = Ok(cljBoolean(TRUE))
    /\ isEqual(BoundV, BoundV)

\* Equality as the claim states it: same variant and equal fields; for maps,
\* the same keys and, at every key, equal values (the value at a key being
\* the one a lookup of the key yields, that of its first entry).
RECURSIVE EqualAsStated(_, _)
HasKey(m, key) == \E i \in DOMAIN m.entries : EqualAsStated(m.entries[i][1], key)
ValueAt(m, key) ==
  m.entries[CHOOSE i \in DOMAIN m.entries :
              /\ EqualAsStated(m.entries[i][1], key)
              /\ \A j \in 1..(i - 1) : ~EqualAsStated(m.entries[j][1], key)][2]
EqualAsStated(a, b) ==
  IF a.kind # b.kind THEN FALSE
  ELSE IF a.kind = "map"
    THEN /\ \A i \in DOMAIN a.entries : HasKey(b, a.entries[i][1])
         /\ \A i \in DOMAIN b.entries : HasKey(a, b.entries[i][1])
         /\ \A i \in DOMAIN a.entries :
              EqualAsStated(ValueAt(a, a.entries[i][1]), ValueAt(b, a.entries[i][1]))
  ELSE IF a.kind \in {"list", "vector"}
    THEN /\ Len(a.value) = Len(b.value)
         /\ \A i \in DOMAIN a.value : EqualAsStated(a.value[i], b.value[i])
  ELSE a = b

\* C18: two maps are equal exactly when they have the same keys, compared by
\* recursive equality, and equal values at every key, whatever the order of
\* their entries; and isEqual(m1, m2) = isEqual(m2, m1).
C18_MapEquality ==
  (phase = "done" /\ op.src = "map-equal") =>
    LET m1 == op.forms[1].value[2]
        m2 == op.forms[1].value[3]
    IN  /\ outcome = Ok(cljBoolean(EqualAsStated(m1, m2)))
        /\ isEqual(m1, m2) = EqualAsStated(m1, m2)
        /\ isEqual(m1, m2) = isEqual(m2, m1)

\* ---------------------------------------------------------------------------
\* C19: no core collection operation (conj, cons, assoc, dissoc, rest, into,
\* concat, take, drop, map, filter, seq, keys, vals, zipmap) changes the
\* contents of a value passed to it: every value bound before a call is bound
\* afterwards and stands for the same structure, and no array that existed
\* before the call has other contents after it.
BoundAs(name, es, h) == Deref(h, es[registry[User]].bindings[name])

C19_ValuesImmutable ==
  [][ /\ \A ref \in DOMAIN arrays : ref \in DOMAIN arrays' /\ arrays'[ref] = arrays[ref]
      /\ \A name \in DOMAIN envs[registry[User]].bindings :
           /\ name \in DOMAIN envs'[registry[User]].bindings
           /\ BoundAs(name, envs', arrays') = BoundAs(name, envs, arrays) ]_vars

\* Reached: a second call was given the result of the first, returned a
\* value that is not the structure of its collection argument, and the
\* literal v is still [0 1].
C19_Witness ==
  /\ steps = 2
  /\ outcome.t = "ok"
  /\ op.name \in {"conj", "assoc", "dissoc", "into"}
  /\ op.forms[1] = envs[registry[User]].bindings[ResultName(1)]
  /\ isCollection(op.forms[1])
  /\ Deref(arrays, outcome.v) # Deref(arrays, op.forms[1])
  /\ BoundAs(<<"v">>, envs, arrays) = cljVector(<<cljNumber(0), cljNumber(1)>>)

\* ---------------------------------------------------------------------------
\* C20: assoc on a vector of length len returns a vector only for an index i
\* with 0 <= i <= len, dissoc only for 0 <= i < len; any other numeric index
\* raises an EvaluationError.
IndexedCall ==
  /\ op.name \in {"assoc", "dissoc"}
  /\ isVector(op.forms[1])
  /\ op.forms[2].kind = "number"
  /\ (op.name = "dissoc" => Len(op.forms) = 2)

InRange ==
  /\ 0 <= op.forms[2].value
  /\ IF op.name = "assoc" THEN op.forms[2].value <= op.of.k ELSE op.forms[2].value < op.of.k

C20_VectorIndexRangeChecked ==
  IndexedCall /\ ~InRange => outcome.t = "throw" /\ outcome.cls = "EvaluationError"

\* ---------------------------------------------------------------------------
\* C21: dissoc on a map, for any number of keys, returns a map with exactly
\* the entries of the input whose key equals none of the given keys, whether
\* or not each given key is in the map.
GivenKeys == {Deref(arrays, op.forms[i]) : i \in 2..Len(op.forms)}
EntriesOf(v) == {Deref(arrays, v).entries[i] : i \in DOMAIN Deref(arrays, v).entries}
Remaining == {e \in EntriesOf(op.forms[1]) : \A k \in GivenKeys : ~isEqual(e[1], k)}

C21_DissocMap ==
  op.name = "dissoc" /\ isMap(op.forms[1]) =>
    outcome.t = "ok" /\ isMap(outcome.v) /\ EntriesOf(outcome.v) = Remaining

\* ---------------------------------------------------------------------------
\* C22: a recur whose argument count differs from the number of its targets
\* (the names of the enclosing loop, or the parameters of the enclosing
\* function arity, the rest parameter included) raises an EvaluationError
\* whose message states the expected and the actual count, and no further
\* iteration is performed.
Targets ==
  IF op.src = "loop-recur" THEN op.of.n
  ELSE op.of.shape[1].n + (IF op.of.shape[1].rest THEN 1 ELSE 0)
Runs == envs[registry[User]].bindings[<<"runs">>].value
StatesCounts(msg, expected, actual) ==
  \E i \in DOMAIN msg, j \in DOMAIN msg :
    i < j /\ msg[i] = NumText(expected) /\ msg[j] = NumText(actual)

C22_RecurArityMismatch ==
  phase = "done" /\ op.src \in {"loop-recur", "fn-recur"} /\ op.of.k # Targets =>
    /\ outcome.t = "throw"
    /\ outcome.cls = "EvaluationError"
    /\ StatesCounts(outcome.msg, Targets, op.of.k)
    /\ Runs = 1

\* ---------------------------------------------------------------------------
\* C23: in (loop [n1 e1 ... nk ek] body) the init expressions are evaluated
\* exactly once, in order, each seeing the earlier names; every iteration
\* evaluates body in a fresh env that extends the env outside the loop with
\* exactly n1..nk bound to the current args; after (recur a1 ... ak) the next
\* iteration has ni bound to ai; the loop returns the body's value on the
\* first iteration that ends without recur.
UserBinding(name) == envs[registry[User]].bindings[name]

\* What the loop's names are bound to in iteration i of the telling loop:
\* a is i, b is (1 2) from the inits and then the a of the iteration before.
ArgsOf(i) == <<cljNumber(i), IF i = 1 THEN cljList(<<cljNumber(1), cljNumber(2)>>) ELSE cljNumber(i - 1)>>

RECURSIVE LogAfter(_)
LogAfter(i) == IF i = 0 THEN cljNil ELSE cljList(<<LogAfter(i - 1)>> \o ArgsOf(i))

\* The env outside the loop: user, or the env of (let [x 7] ...) on user.
IsOutside(e) ==
  IF op.of.n = 0 THEN e = registry[User]
  ELSE /\ e \in DOMAIN envs
       /\ DOMAIN envs[e].bindings = {<<"x">>}
       /\ envs[e].outer = registry[User]

\* The env an iteration ran in.
IsIterationEnv(e, i) ==
  /\ IsOutside(envs[e].outer)
  /\ DOMAIN envs[e].bindings = {<<"a">>, <<"b">>}
  /\ envs[e].bindings[<<"a">>] = ArgsOf(i)[1]
  /\ envs[e].bindings[<<"b">>] = ArgsOf(i)[2]

C23_LoopIterations ==
  phase = "done" /\ op.src = "loop" =>
    /\ outcome.t = "ok"
    /\ outcome.v.kind = "function"
    /\ IsIterationEnv(outcome.v.env, op.of.k)
    /\ UserBinding(<<"inits">>) = cljNumber(2)
    /\ UserBinding(<<"log">>) = LogAfter(op.of.k)
    /\ \A i \in 1..op.of.k : \E e \in DOMAIN envs : IsIterationEnv(e, i)
    /\ Cardinality({e \in DOMAIN envs : DOMAIN envs[e].bindings = {<<"a">>, <<"b">>}}) = op.of.k

\* Reached: the loop inside the let ran MaxIterations iterations.
C23_Witness ==
  /\ phase = "done"
  /\ op.src = "loop"
  /\ op.of.n = 1
  /\ op.of.k = MaxIterations
  /\ outcome.t = "ok"
  /\ UserBinding(<<"log">>) = LogAfter(MaxIterations)

\* ---------------------------------------------------------------------------
\* C24: a RecurSignal is caught only by the innermost loop body or function
\* body being evaluated when it is raised: a recur inside an inner loop or
\* function rebinds only that one's names and never restarts or rebinds the
\* enclosing loop or function.
\* What log holds when every recur reaches its own target: for each i of the
\* outer one in turn, :outer i and then :inner i j for each j of the inner one.
RECURSIVE InnerLog(_, _, _, _)
InnerLog(log, i, j, inner) ==
  IF j > inner THEN log
  ELSE InnerLog(cljList(<<log, Kw(":inner"), cljNumber(i), cljNumber(j)>>), i, j + 1, inner)

RECURSIVE OuterLog(_, _, _, _)
OuterLog(log, i, outer, inner) ==
  IF i > outer THEN log
  ELSE OuterLog(InnerLog(cljList(<<log, Kw(":outer"), cljNumber(i)>>), i, 1, inner), i + 1, outer, inner)

C24_RecurInnermostTarget ==
  phase = "done" /\ op.src = "nested" =>
    /\ outcome = Ok(Kw(":done"))
    /\ UserBinding(<<"log">>) = OuterLog(cljNil, 1, op.of.n, op.of.k)

\* Reached: a function called from a loop body recurred, and so did the loop.
C24_Witness ==
  /\ phase = "done"
  /\ op.src = "nested"
  /\ op.of.shape = <<"loop", "fn">>
  /\ op.of.n = MaxIterations
  /\ op.of.k = MaxIterations
  /\ outcome = Ok(Kw(":done"))

\* ---------------------------------------------------------------------------
\* C25: when (require '[my.utils :as u]) is a top-level form of a file that
\* loadFile evaluates into namespace N, the alias is added to N's alias
\* table, and u/helper resolves in the later forms of the same file,
\* whatever the session's current namespace is.
LoadedInto == IF op.hint = NoName THEN User ELSE op.hint

\* The file was loaded and my.utils, with helper, is there to be required.
RequiredInFile ==
  /\ op.name = "loadFile"
  /\ op.src = "require-use"
  /\ MyUtils \in DOMAIN registry
  /\ <<"helper">> \in DOMAIN envs[registry[MyUtils]].bindings

C25_RequireInCallersNamespace ==
  RequiredInFile =>
    /\ outcome.t = "ok"
    /\ LoadedInto \in DOMAIN registry
    /\ <<"u">> \in DOMAIN envs[registry[LoadedInto]].aliases
    /\ envs[registry[LoadedInto]].aliases[<<"u">>] = registry[MyUtils]
    /\ <<"result">> \in DOMAIN envs[registry[LoadedInto]].bindings

DistinctKeys(mapValue) ==
  \A i \in DOMAIN mapValue.entries, j \in DOMAIN mapValue.entries :
    isEqual(mapValue.entries[i][1], mapValue.entries[j][1]) => i = j

C27_MapKeysDistinct ==
  /\ outcome.t = "ok"
  /\ op.name \in {"hash-map", "assoc", "conj", "into", "zipmap"}
  /\ isMap(outcome.v)
  => DistinctKeys(Deref(arrays, outcome.v))

\* ---------------------------------------------------------------------------
\* C28: the session's current namespace changes only through setNs: loadFile,
\* evaluate (even of source with an ns form), evaluateForms, require and lazy
\* namespace loading, and the entry loading of createSession, leave it as it
\* was, whether they return or throw.
C28_CurrentNsOnlyBySetNs ==
  [][currentNs' # currentNs => op'.name = "setNs" /\ currentNs' = op'.hint]_vars

\* Reached: after setNs to my.utils, a file whose ns form names my.app was
\* loaded into my.app, and the current namespace is still my.utils.
C28_Witness ==
  /\ steps = 2
  /\ op.name = "loadFile"
  /\ op.src = "two-ns"
  /\ outcome.t = "ok"
  /\ <<"z">> \in DOMAIN envs[registry[MyApp]].bindings
  /\ currentNs = MyUtils

\* What namespace nsName sees for the unqualified name helper, and the binding
\* of helper in the namespace's own env.
HelperName == <<"helper">>
SeenFrom(nsName) == lookup(HelperName, registry[nsName], Machine)
BoundIn(nsName) ==
  IF HelperName \in DOMAIN envs[registry[nsName]].bindings
    THEN Ok(envs[registry[nsName]].bindings[HelperName])
    ELSE Ok(Undefined)

\* C29: a name brought in with :refer is a copy taken at require time.  Once
\* user has referred helper from my.utils, a step that changes the binding of
\* helper in my.utils leaves what user sees for helper as it was, and a step
\* that changes what user sees for helper leaves the binding in my.utils as it
\* was.
C29_ReferIsCopy ==
  [][(op.src = "refer-helper" /\ outcome.t = "ok") =>
       /\ (BoundIn(MyUtils)' # BoundIn(MyUtils) => SeenFrom(User)' = SeenFrom(User))
       /\ (SeenFrom(User)' # SeenFrom(User) => BoundIn(MyUtils)' = BoundIn(MyUtils))]_vars

\* helper was referred by user and then redefined in my.utils by a load of the
\* second version of the file: user still sees 42.
C29_Witness ==
  /\ steps = 2 /\ op.name = "loadFile" /\ op.src = "utils-v2" /\ outcome.t = "ok"
  /\ BoundIn(User) = Ok(cljNumber(42))
  /\ BoundIn(MyUtils) = Ok(cljNumber(99))


\* The calls of a function of another namespace whose body is the qualified
\* symbol u/helper: the source evaluated, the namespace the function was
\* defined in and the name it has there.
QualifiedCalls ==
  { [src |-> "call-f", ns |-> MyApp, fn |-> <<"f">>],
    [src |-> "call-g", ns |-> MyBare, fn |-> <<"g">>] }
Called(call) ==
  /\ op.name = "evaluate" /\ op.src = call.src
  /\ call.ns \in DOMAIN registry
  /\ call.fn \in DOMAIN envs[registry[call.ns]].bindings
DefinersAliases(call) == envs[registry[call.ns]].aliases

\* C30: a qualified symbol in the body of a function is resolved through the
\* alias table of the namespace the function was defined in, whatever the
\* current namespace of the session the call is made from: the call answers
\* with the binding of helper in the namespace that table gives for u, and
\* throws EvaluationError "No such namespace alias: u" when the table has no u.
C30_AliasOfDefiningNamespace ==
  \A call \in QualifiedCalls :
    Called(call) =>
      outcome = IF <<"u">> \in DOMAIN DefinersAliases(call)
                  THEN lookup(HelperName, DefinersAliases(call)[<<"u">>], Machine)
                  ELSE EvaluationError(<<"No such namespace alias: ", "u">>)

\* g, defined in my.bare which has no alias u, was called from user, which has
\* the alias u for my.utils: the call threw.
C30_Witness ==
  /\ op.name = "evaluate" /\ op.src = "call-g" /\ currentNs = User
  /\ MyBare \in DOMAIN registry /\ <<"g">> \in DOMAIN envs[registry[MyBare]].bindings
  /\ <<"u">> \in DOMAIN envs[registry[User]].aliases
  /\ outcome.t = "throw" /\ outcome.cls = "EvaluationError"

\* f, defined in my.app which has the alias u for my.utils, was called from
\* my.utils, which has no alias u: the call answered 42.
C30_CalledWithoutAlias ==
  /\ op.name = "evaluate" /\ op.src = "call-f" /\ currentNs = MyUtils
  /\ <<"u">> \notin DOMAIN envs[registry[MyUtils]].aliases
  /\ outcome = Ok(cljNumber(42))
====
